---------------------------- MODULE Spec2Model ----------------------------
(***************************************************************************)
(* Model of the AI orchestration layer of History-AI:                      *)
(*   GeminiClient.call_with_retry   (app/utils/gemini_client.py)           *)
(*   parse_json_response            (app/utils/response_parser.py)         *)
(*   AIService.generate_card / copilot_answer / judge_bias                 *)
(*                                  (app/services/ai_service.py)           *)
(* The prompt builders and the two structural validators are imported by   *)
(* app/utils/__init__.py but their modules are not part of the sources at  *)
(* hand; they are modelled from the specification and the tests.           *)
(***************************************************************************)
EXTENDS Integers, Sequences, FiniteSets, TLC

VARIABLES
    op,          \* the operation in progress: its name and its arguments
    pc,          \* where the operation stands
    prompt,      \* the prompt built for the operation
    attempt,     \* call_with_retry: the loop variable `attempt`
    last_error,  \* call_with_retry: the local `last_error`
    upstream,    \* what each generate_content call of the operation did, in order
    gateway,     \* the outcome of call_with_retry (returned text or raised error)
    data,        \* the structure decoded by parse_json_response
    result,      \* what the operation gave its caller (a value or an error)
    trace,       \* the events of the operation, in order
    log,         \* the records written to the loggers by the operation
    opsDone,     \* operations completed on this AIService instance
    client,      \* the attributes of the GeminiClient the service holds
    lastOp,      \* the name and the outcome of the operation completed last
    calls,       \* operations running at the same time on one service: each one's state
    frames,      \* the locals (attempt, last_error) of each running call_with_retry
    workflow,    \* the card-creation workflow around a generate_card call
    http         \* the HTTP response of the endpoint around an operation

vars == <<op, pc, prompt, attempt, last_error, upstream, gateway, data, result, trace, log,
          opsDone, client, lastOp, calls, frames, workflow, http>>

-----------------------------------------------------------------------------
(* Bounds and program constants *)

\* operations run one after another on one AIService instance
MaxOps == 2

\* operations run at the same time on one AIService instance
NumCalls == 2

\* GeminiClient.__init__: self.max_retries = 3
max_retries == 3

\* GeminiClient.__init__: self.retry_delay = 1
retry_delay == 1

\* AIService.judge_bias: len(content) < 50
MinContentLength == 50

\* CardBase: description min_length=10
MinDescriptionLength == 10

\* CardBase: title max_length=200
MaxTitleLength == 200

-----------------------------------------------------------------------------
(* Python values.  A str whose characters matter (an upstream response     *)
(* text) is a sequence of elements, see below; every other str is a TLA+   *)
(* string, of which only the length and the identity are used.             *)

PyNone == [type |-> "none"]
PyStr(s) == [type |-> "str", s |-> s]
\* a float, in tenths: 78.5 is PyNum(785)
PyNum(t) == [type |-> "num", tenths |-> t]
\* an int
PyInt(n) == [type |-> "int", n |-> n]
PyBool(b) == [type |-> "bool", b |-> b]
PyList(items) == [type |-> "list", items |-> items]
\* a dict: `fields` is a function from the keys present to their values
PyDict(fields) == [type |-> "dict", fields |-> fields]
\* an upstream response text: `chars` is the sequence of its elements
PyText(chars) == [type |-> "text", chars |-> chars]

\* Python truthiness (`if x`, `not x`, `x or y`)
Truthy(v) ==
    CASE v.type = "none" -> FALSE
      [] v.type = "str"  -> v.s # ""
      [] v.type = "text" -> v.chars # <<>>
      [] v.type = "num"  -> v.tenths # 0
      [] v.type = "int"  -> v.n # 0
      [] v.type = "bool" -> v.b
      [] v.type = "list" -> v.items # <<>>
      [] v.type = "dict" -> DOMAIN v.fields # {}

\* str() of a float given in tenths: 78.5, 100.0, -0.1
FloatStr(t) ==
    IF t < 0 THEN "-" \o ToString((0 - t) \div 10) \o "." \o ToString((0 - t) % 10)
    ELSE ToString(t \div 10) \o "." \o ToString(t % 10)

\* str(v) as an f-string renders a value (a list or a dict is never
\* rendered here: the order of a dict's keys is not kept)
PyFormat(v) ==
    CASE v.type = "none" -> "None"
      [] v.type = "str"  -> v.s
      [] v.type = "int"  -> ToString(v.n)
      [] v.type = "num"  -> FloatStr(v.tenths)
      [] v.type = "bool" -> IF v.b THEN "True" ELSE "False"

\* type(v).__name__
TypeName(v) ==
    IF v.type = "none" THEN "NoneType"
    ELSE IF v.type = "num" THEN "float"
    ELSE IF v.type = "text" THEN "str"
    ELSE v.type

\* an exception: its class and str(e), the latter as the sequence of the
\* pieces an f-string put together
Exc(kind, msg) == [kind |-> kind, msg |-> msg]

\* a record written to the log: its logger, its level, its message as pieces
LogRecord(logger, level, msg) == [logger |-> logger, level |-> level, msg |-> msg]

\* `needle in str(e)` for a needle that is one of the pieces
Contains(msg, piece) == \E i \in 1..Len(msg) : msg[i] = piece

-----------------------------------------------------------------------------
(* Response texts.  A text is a sequence of elements; an element is either *)
(* one character (a blank, a newline, a backtick, a letter of a fence tag)  *)
(* or a whole                                                              *)
(* document: a maximal piece of the text that holds no leading or trailing *)
(* whitespace and no fence marker at its ends, written as the real text.   *)
(* Slicing and strip() work on elements; they only ever cut characters.    *)

\* elements that stand for the white space above U+007F, one element for
\* one character, named as Python writes the character: next line,
\* no-break space and the space characters above U+00FF; the vertical tab
\* and the four separators have such an element too
OtherWhitespace ==
    { "\\x0b", "\\x1c", "\\x1d", "\\x1e", "\\x1f", "\\x85", "\\xa0", "\\u1680",
      "\\u2000", "\\u2001", "\\u2002", "\\u2003", "\\u2004", "\\u2005", "\\u2006",
      "\\u2007", "\\u2008", "\\u2009", "\\u200a", "\\u2028", "\\u2029", "\\u202f",
      "\\u205f", "\\u3000" }

\* the characters str.strip() removes (those of str.isspace()): the ASCII
\* ones as themselves (the second set is \x0b, \x1c, \x1d, \x1e, \x1f), the
\* others as their elements
IsSpace(c) == c \in {" ", "\n", "\t", "\r", "\f"} \cup { "", "", "", "", "" }
              \cup OtherWhitespace

\* the backtick character (the module's notation has no literal for it)
Backtick == "BACKTICK"

Fence == <<Backtick, Backtick, Backtick>>
FenceJson == Fence \o <<"j", "s", "o", "n">>
TagPython == <<"p", "y">>

\* text[n:]
DropFirst(t, n) == SubSeq(t, n + 1, Len(t))
\* text[:-n]
DropLast(t, n) == SubSeq(t, 1, Len(t) - n)
\* text.startswith(p)
StartsWith(t, p) == Len(t) >= Len(p) /\ SubSeq(t, 1, Len(p)) = p
\* text.endswith(p)
EndsWith(t, p) == Len(t) >= Len(p) /\ SubSeq(t, Len(t) - Len(p) + 1, Len(t)) = p

RECURSIVE LStrip(_)
LStrip(t) == IF t # <<>> /\ IsSpace(Head(t)) THEN LStrip(Tail(t)) ELSE t

RECURSIVE RStrip(_)
RStrip(t) == IF t # <<>> /\ IsSpace(t[Len(t)]) THEN RStrip(DropLast(t, 1)) ELSE t

\* str.strip()
Strip(t) == RStrip(LStrip(t))

(* The documents the upstream model is made to answer with. *)
DocCardOk == "{\"title\":\"T\",\"description\":\"Valid description text\",\"keywords\":[\"a\",\"b\"]}"
DocCardOneKeyword == "{\"title\":\"Test Event\",\"description\":\"Ten chars.\",\"keywords\":[\"keyword1\"]}"
DocEmptyObject == "{}"
DocCardNoKeywords == "{\"title\":\"Test Event\",\"description\":\"Valid description text\"}"
DocCardNumericTitle == "{\"title\":1,\"description\":\"Valid description text\",\"keywords\":[\"a\"]}"
DocCardEmptyTitle == "{\"title\":\"\",\"description\":\"Valid description text\",\"keywords\":[\"a\"]}"
DocCardShortDescription == "{\"title\":\"Test Event\",\"description\":\"Too short\",\"keywords\":[\"keyword1\"]}"
DocCardNumericDescription == "{\"title\":\"T\",\"description\":12345,\"keywords\":[\"a\"]}"
DocCardKeywordsNotList == "{\"title\":\"T\",\"description\":\"Valid description text\",\"keywords\":\"no-list\"}"
DocCardEmptyKeywords == "{\"title\":\"Test Event\",\"description\":\"Test description\",\"keywords\":[]}"
DocBiasOk == "{\"bias_score\":78.5,\"explanation\":\"Loaded language.\"}"
DocBiasZero == "{\"bias_score\":0.0,\"explanation\":\"Perfectly neutral content.\"}"
DocBiasHundred == "{\"bias_score\":100.0,\"explanation\":\"Extremely biased content.\"}"
DocBiasJustAbove == "{\"bias_score\":100.1,\"explanation\":\"Test\"}"
DocBiasJustBelow == "{\"bias_score\":-0.1,\"explanation\":\"Test\"}"
DocBiasTooHigh == "{\"bias_score\":150.0,\"explanation\":\"Test\"}"
DocBiasNegative == "{\"bias_score\":-10.0,\"explanation\":\"Test\"}"
DocBiasNoExplanation == "{\"bias_score\":50.0}"
DocBiasNoScore == "{\"explanation\":\"Missing score field\"}"
DocBiasTextScore == "{\"bias_score\":\"high\",\"explanation\":\"Test\"}"
DocBiasEmptyExplanation == "{\"bias_score\":50.0,\"explanation\":\"\"}"
DocArray == "[1]"
DocNumber == "42"
DocNull == "null"
DocNotJson == "not json"
DocAnswer == "The Protocol was a secret agreement."

\* json.loads on one document: the documents that are JSON ...
JsonDocuments ==
    { DocCardOk, DocCardOneKeyword, DocEmptyObject, DocCardNoKeywords,
      DocCardNumericTitle, DocCardEmptyTitle, DocCardShortDescription,
      DocCardNumericDescription, DocCardKeywordsNotList, DocCardEmptyKeywords,
      DocBiasOk, DocBiasZero, DocBiasHundred, DocBiasJustAbove, DocBiasJustBelow,
      DocBiasTooHigh, DocBiasNegative, DocBiasNoExplanation, DocBiasNoScore,
      DocBiasTextScore, DocBiasEmptyExplanation, DocArray, DocNumber, DocNull }

\* ... and the value each decodes to
JsonValue(d) ==
    CASE d = DocCardOk ->
           PyDict([title |-> PyStr("T"), description |-> PyStr("Valid description text"),
                   keywords |-> PyList(<<PyStr("a"), PyStr("b")>>)])
      [] d = DocCardOneKeyword ->
           PyDict([title |-> PyStr("Test Event"), description |-> PyStr("Ten chars."),
                   keywords |-> PyList(<<PyStr("keyword1")>>)])
      [] d = DocEmptyObject -> PyDict(<<>>)
      [] d = DocCardNoKeywords ->
           PyDict([title |-> PyStr("Test Event"), description |-> PyStr("Valid description text")])
      [] d = DocCardNumericTitle ->
           PyDict([title |-> PyInt(1), description |-> PyStr("Valid description text"),
                   keywords |-> PyList(<<PyStr("a")>>)])
      [] d = DocCardEmptyTitle ->
           PyDict([title |-> PyStr(""), description |-> PyStr("Valid description text"),
                   keywords |-> PyList(<<PyStr("a")>>)])
      [] d = DocCardShortDescription ->
           PyDict([title |-> PyStr("Test Event"), description |-> PyStr("Too short"),
                   keywords |-> PyList(<<PyStr("keyword1")>>)])
      [] d = DocCardNumericDescription ->
           PyDict([title |-> PyStr("T"), description |-> PyInt(12345),
                   keywords |-> PyList(<<PyStr("a")>>)])
      [] d = DocCardKeywordsNotList ->
           PyDict([title |-> PyStr("T"), description |-> PyStr("Valid description text"),
                   keywords |-> PyStr("no-list")])
      [] d = DocCardEmptyKeywords ->
           PyDict([title |-> PyStr("Test Event"), description |-> PyStr("Test description"),
                   keywords |-> PyList(<<>>)])
      [] d = DocBiasOk ->
           PyDict([bias_score |-> PyNum(785), explanation |-> PyStr("Loaded language.")])
      [] d = DocBiasZero ->
           PyDict([bias_score |-> PyNum(0), explanation |-> PyStr("Perfectly neutral content.")])
      [] d = DocBiasHundred ->
           PyDict([bias_score |-> PyNum(1000), explanation |-> PyStr("Extremely biased content.")])
      [] d = DocBiasJustAbove ->
           PyDict([bias_score |-> PyNum(1001), explanation |-> PyStr("Test")])
      [] d = DocBiasJustBelow ->
           PyDict([bias_score |-> PyNum(-1), explanation |-> PyStr("Test")])
      [] d = DocBiasTooHigh ->
           PyDict([bias_score |-> PyNum(1500), explanation |-> PyStr("Test")])
      [] d = DocBiasNegative ->
           PyDict([bias_score |-> PyNum(-100), explanation |-> PyStr("Test")])
      [] d = DocBiasNoExplanation -> PyDict([bias_score |-> PyNum(500)])
      [] d = DocBiasNoScore -> PyDict([explanation |-> PyStr("Missing score field")])
      [] d = DocBiasTextScore ->
           PyDict([bias_score |-> PyStr("high"), explanation |-> PyStr("Test")])
      [] d = DocBiasEmptyExplanation ->
           PyDict([bias_score |-> PyNum(500), explanation |-> PyStr("")])
      [] d = DocArray -> PyList(<<PyInt(1)>>)
      [] d = DocNumber -> PyInt(42)
      [] d = DocNull -> PyNone

\* how many characters an element of a text stands for
ElemLen(e) == IF e = Backtick \/ e \in OtherWhitespace THEN 1 ELSE Len(e)

\* len(text)
RECURSIVE TextLen(_)
TextLen(t) == IF t = <<>> THEN 0 ELSE ElemLen(Head(t)) + TextLen(Tail(t))

\* how many elements at the start of a text json.loads skips as white space
\* (space, line feed, tab, carriage return)
RECURSIVE JsonLead(_)
JsonLead(t) == IF t # <<>> /\ Head(t) \in {" ", "\n", "\t", "\r"} THEN 1 + JsonLead(Tail(t)) ELSE 0

\* JSONDecodeError(msg, doc, pos): `before` is doc[:pos]; the line is one
\* more than its newlines, the column counts from the last of them
JSONDecodeError(msg, before) ==
    LET newlines == { i \in 1..Len(before) : before[i] = "\n" }
        last == IF newlines = {} THEN 0
                ELSE CHOOSE i \in newlines : \A k \in newlines : k <= i
    IN  Exc("JSONDecodeError",
            <<msg, ": line ", ToString(Cardinality(newlines) + 1),
              " column ", ToString(TextLen(SubSeq(before, last + 1, Len(before))) + 1),
              " (char ", ToString(TextLen(before)), ")">>)

\* json.loads(text): white space is skipped, one document is decoded, white
\* space is skipped again; no document there (nothing, a fence, a tag) is
\* "Expecting value", anything after the document is "Extra data"
JsonLoads(t) ==
    LET lead == JsonLead(t)
        rest == DropFirst(t, lead)
    IN  IF rest = <<>> \/ Head(rest) \notin JsonDocuments
        THEN [ok |-> FALSE, error |-> JSONDecodeError("Expecting value", SubSeq(t, 1, lead))]
        ELSE LET end == lead + 1 + JsonLead(Tail(rest))
             IN  IF end = Len(t)
                 THEN [ok |-> TRUE, value |-> JsonValue(Head(rest))]
                 ELSE [ok |-> FALSE,
                       error |-> JSONDecodeError("Extra data", SubSeq(t, 1, end))]

\* variant: `response_text[3:]` for the json-tagged fence too - the tag stays
StrippedOfFenceTagKept(response_text) ==
    LET t1 == Strip(response_text)
        t2 == IF StartsWith(t1, Fence) THEN DropFirst(t1, 3) ELSE t1
        t3 == IF EndsWith(t2, Fence) THEN DropLast(t2, 3) ELSE t2
    IN  Strip(t3)

\* parse_json_response, up to the text handed to json.loads
StrippedOfFence(response_text) ==
    LET t1 == Strip(response_text)
        t2 == IF StartsWith(t1, FenceJson) THEN DropFirst(t1, 7)
              ELSE IF StartsWith(t1, Fence) THEN DropFirst(t1, 3)
              ELSE t1
        t3 == IF EndsWith(t2, Fence) THEN DropLast(t2, 3) ELSE t2
    IN  Strip(t3)

\* parse_json_response(response_text): the decoded value, or
\* ResponseParseError after an error record that holds the decoder's message
\* and the text as it was handed to json.loads
parse_json_response(response_text) ==
    LET decoded == JsonLoads(StrippedOfFence(response_text))
    IN  IF decoded.ok
        THEN [ok |-> TRUE, value |-> decoded.value]
        ELSE [ok |-> FALSE,
              error |-> Exc("ResponseParseError",
                            <<"Failed to parse Gemini response as JSON: ">> \o decoded.error.msg),
              logged |-> LogRecord("response_parser", "error",
                                   <<"Failed to parse JSON response: ">> \o decoded.error.msg
                                   \o <<"\nResponse: ">> \o StrippedOfFence(response_text))]

-----------------------------------------------------------------------------
(* Prompt builders (app/utils/prompts.py): pure renderings of the caller's *)
(* fields around fixed section markers.                                    *)

build_card_generation_prompt(title, system_prompt, topics_to_cover, context_text) ==
    <<"TITLE: ", PyFormat(title), "SYSTEM PROMPT", PyFormat(system_prompt),
      "TOPICS TO COVER", PyFormat(topics_to_cover)>>
    \o (IF Truthy(context_text) THEN <<"ADDITIONAL CONTEXT", PyFormat(context_text)>> ELSE <<>>)

build_copilot_prompt(question, context) ==
    <<"QUESTION FROM USER: ", PyFormat(question), "DOCUMENT CONTEXT:", PyFormat(context)>>

build_bias_judge_prompt(content) ==
    <<"CONTENT TO ANALYZE:", PyFormat(content), "bias_score">>

-----------------------------------------------------------------------------
(* Structural validators (app/utils/card_validator.py, bias_validator.py). *)

HasStr(d, key) == key \in DOMAIN d.fields /\ d.fields[key].type = "str"

\* validate_card_structure(data): passes, or raises CardValidationError on
\* the first violation found
validate_card_structure(card_data) ==
    LET bad(why) == [ok |-> FALSE, error |-> Exc("CardValidationError", <<why>>)]
    IN  IF card_data.type # "dict" THEN bad("Invalid card structure")
        ELSE IF "title" \notin DOMAIN card_data.fields THEN bad("Missing required field: title")
        ELSE IF "description" \notin DOMAIN card_data.fields
             THEN bad("Missing required field: description")
        ELSE IF "keywords" \notin DOMAIN card_data.fields
             THEN bad("Missing required field: keywords")
        ELSE IF ~HasStr(card_data, "title") THEN bad("Invalid title")
        ELSE IF Len(card_data.fields.title.s) < 1 THEN bad("Invalid title")
        ELSE IF Len(card_data.fields.title.s) > MaxTitleLength THEN bad("Invalid title")
        ELSE IF ~HasStr(card_data, "description") THEN bad("Invalid description")
        ELSE IF Len(card_data.fields.description.s) < MinDescriptionLength
             THEN bad("Invalid description")
        ELSE IF card_data.fields.keywords.type # "list" THEN bad("Invalid keywords")
        ELSE IF Len(card_data.fields.keywords.items) < 1 THEN bad("Invalid keywords")
        ELSE [ok |-> TRUE]

\* a number, int or float, in tenths
Tenths(v) == IF v.type = "int" THEN 10 * v.n ELSE v.tenths

\* the inclusive range of a bias score, in tenths: [0, 100]
ScoreInRange(tenths) == 0 <= tenths /\ tenths <= 1000

\* validate_bias_response(data): the pair (bias_score, explanation), or
\* BiasValidationError
validate_bias_response(bias_data) ==
    LET bad(msg) == [ok |-> FALSE, error |-> Exc("BiasValidationError", msg)]
    IN  IF bias_data.type # "dict" THEN bad(<<"Invalid bias judge response format">>)
        ELSE IF "bias_score" \notin DOMAIN bias_data.fields
                \/ "explanation" \notin DOMAIN bias_data.fields
             THEN bad(<<"Invalid bias judge response format">>)
        ELSE IF bias_data.fields.bias_score.type \notin {"num", "int"}
             THEN bad(<<"Invalid bias judge response format">>)
        ELSE IF ~ScoreInRange(Tenths(bias_data.fields.bias_score))
             THEN bad(<<"Bias score out of range", ": ",
                        PyFormat(bias_data.fields.bias_score)>>)
        ELSE IF ~HasStr(bias_data, "explanation") \/ bias_data.fields.explanation.s = ""
             THEN bad(<<"Invalid bias judge response format">>)
        ELSE [ok |-> TRUE,
              bias_score |-> bias_data.fields.bias_score,
              explanation |-> bias_data.fields.explanation]

-----------------------------------------------------------------------------
(* The upstream model: what one generate_content call can do. *)

\* transport and service errors the upstream call raises
UpstreamErrors ==
    { Exc("ConnectionError", <<"connection reset">>),
      Exc("ServerError", <<"503 service unavailable">>) }

Documents == JsonDocuments \cup {DocNotJson, DocAnswer}

\* a document inside a fenced block opened with the given tag
Fenced(tag, d) == Fence \o tag \o <<"\n", d, "\n">> \o Fence

\* a document inside a fenced block tagged json, with white space and
\* newlines around the block
FencedJsonPadded(d) == <<" ", "\n">> \o Fenced(<<"j", "s", "o", "n">>, d) \o <<"\n", " ">>

\* the non-empty texts a response carries
ResponseTexts ==
    { <<d>> : d \in Documents }
    \cup { FencedJsonPadded(d) : d \in JsonDocuments }
    \cup { Fenced(<<"j", "s", "o", "n">>, d) : d \in {DocCardOk, DocBiasOk, DocNotJson} }
    \cup { Fenced(<<>>, DocCardOk), Fenced(TagPython, DocCardOk),
           <<" ", "\n">> \o Fenced(<<"j", "s", "o", "n">>, DocBiasHundred) \o <<"\n">>,
           <<DocCardOk, "\n">> \o Fence,
           FenceJson \o <<"\n", DocBiasOk>>,
           <<" ", "\n">>,
           <<" ", " ", DocAnswer, " ", "\n">>,
           <<"\n", DocBiasTooHigh, " ">>,
           <<DocCardOk, " ", DocCardOk>>,
           <<"\r", DocCardOk, "\r", "\n">> }

\* one call of client.models.generate_content: it raises, or it returns a
\* response whose text is missing (None), empty, or one of the texts
UpstreamOutcomes ==
    { [kind |-> "raise", error |-> e] : e \in UpstreamErrors }
    \cup { [kind |-> "response", text |-> PyNone],
           [kind |-> "response", text |-> PyText(<<>>)] }
    \cup { [kind |-> "response", text |-> PyText(t)] : t \in ResponseTexts }

(* The caller: the arguments the three operations are called with. *)
Titles == { PyStr("Suez Crisis") }
SystemPrompts == { PyStr("Neutral, academic tone") }
TopicsToCover == { PyStr("Background; Consequences") }
ContextTexts == { PyNone, PyStr(""), PyStr("Some pdf context") }
Questions == { PyNone, PyStr(""), PyStr("What happened?"), PyStr(" ") }
Contexts == { PyNone, PyStr(""), PyStr("Some context"), PyStr("  ") }
Contents ==
    { PyNone, PyStr(""), PyStr("Too short"),
      PyStr("Content of forty-nine characters, one short of it"),
      PyStr("Content that is exactly fifty characters in length"),
      PyStr("Content that is exactly fifty-one characters long !"),
      PyStr("a\\bcdefgxxxxxxxxxxxxxxxxxxxxxxxxxxxxxxxxxxxxxxxxxxxxx"),
      PyStr("                                                  ") }

-----------------------------------------------------------------------------
(* Observation: the events of an operation and the log records. *)

Ev(name, n) == [ev |-> name, n |-> n]

\* how many events of a kind a trace holds
Count(tr, name) == Cardinality({ i \in 1..Len(tr) : tr[i].ev = name })

-----------------------------------------------------------------------------
(* GeminiClient.call_with_retry *)

\* variant: `if response.text is not None:` - an empty text counts as a success
AttemptSucceedsNotNone(outcome) == outcome.kind = "response" /\ outcome.text.type # "none"

\* `if response.text:` - the attempt returned a non-empty text
AttemptSucceeds(outcome) == outcome.kind = "response" /\ Truthy(outcome.text)

\* variant: `return response.text.strip()`
ReturnedTextStripped(outcome) == PyText(Strip(outcome.text.chars))

\* `return response.text`
ReturnedText(outcome) == outcome.text

\* the exception the except clause receives from a failed attempt: the one
\* the upstream call raised, or the one raised for an empty response
AttemptError(outcome) ==
    IF outcome.kind = "raise" THEN outcome.error
    ELSE Exc("GeminiClientError", <<"Empty response from Gemini">>)

\* variant: `last_error = last_error or e` - the first cause is kept
RecordErrorFirst(previous, e) == IF previous = PyNone THEN e ELSE previous

\* `last_error = e`
RecordError(previous, e) == e

\* variant: `if attempt < self.max_retries:` - a sleep after the last attempt too
ShouldSleepAfterLast(a) == a < client.max_retries

\* `if attempt < self.max_retries - 1:`
ShouldSleep(a) == a < client.max_retries - 1

\* variant: `wait_time = self.retry_delay` - no exponential growth
WaitTimeFlat(a) == client.retry_delay

\* `wait_time = self.retry_delay * (2 ** attempt)`
WaitTime(a) == client.retry_delay * (2 ^ a)

\* variant: `self.retry_delay *= 2` - the backoff is kept on the client
ClientAfterBackoffDoubled(c) == [c EXCEPT !.retry_delay = 2 * @]

\* the backoff is computed in the local wait_time: the attributes of the
\* client are what they were before the sleep
ClientAfterBackoff(c) == c

\* variant: `for attempt in range(self.max_retries + 1):`
LoopContinuesOneMore(a) == a + 1 < client.max_retries + 1

\* `for attempt in range(self.max_retries):` has a next value after a
LoopContinues(a) == a + 1 < client.max_retries

\* the error raised once the loop is over
GatewayFailure(last) ==
    Exc("GeminiClientError",
        <<"Gemini API call failed after ", ToString(client.max_retries), " attempts: ">> \o last.msg)

-----------------------------------------------------------------------------
(* AIService: the except clauses of the three operations.  Each gives the  *)
(* error raised to the caller and the record logged.                       *)

\* variant: generate_card without its `except Exception` clause
generate_card_except_narrow(e) ==
    IF e.kind \in {"ResponseParseError", "CardValidationError"}
    THEN [error |-> Exc("AIServiceError", <<"Card generation failed: ">> \o e.msg),
          logged |-> LogRecord("ai_service", "error",
                               <<"Card generation validation error: ">> \o e.msg)]
    ELSE [error |-> e,
          logged |-> LogRecord("ai_service", "error",
                               <<"Unexpected error in card generation: ">> \o e.msg)]

generate_card_except(e) ==
    IF e.kind \in {"ResponseParseError", "CardValidationError"}
    THEN [error |-> Exc("AIServiceError", <<"Card generation failed: ">> \o e.msg),
          logged |-> LogRecord("ai_service", "error",
                               <<"Card generation validation error: ">> \o e.msg)]
    ELSE [error |-> Exc("AIServiceError", <<"Unexpected error: ">> \o e.msg),
          logged |-> LogRecord("ai_service", "error",
                               <<"Unexpected error in card generation: ">> \o e.msg)]

\* variant: `raise AIServiceError("Failed to generate answer")` - no cause
copilot_answer_except_no_cause(e) ==
    [error |-> Exc("AIServiceError", <<"Failed to generate answer">>),
     logged |-> LogRecord("ai_service", "error", <<"Copilot answer error: ">> \o e.msg)]

copilot_answer_except(e) ==
    [error |-> Exc("AIServiceError", <<"Failed to generate answer: ">> \o e.msg),
     logged |-> LogRecord("ai_service", "error", <<"Copilot answer error: ">> \o e.msg)]

\* variant: `raise AIServiceError("Bias judgment failed")` - the cause is left out
judge_bias_except_no_cause(e) ==
    IF e.kind \in {"ResponseParseError", "BiasValidationError"}
    THEN [error |-> Exc("AIServiceError", <<"Bias judgment failed">>),
          logged |-> LogRecord("ai_service", "error",
                               <<"Bias judgment validation error: ">> \o e.msg)]
    ELSE [error |-> Exc("AIServiceError", <<"Unexpected error: ">> \o e.msg),
          logged |-> LogRecord("ai_service", "error",
                               <<"Unexpected error in bias judgment: ">> \o e.msg)]

judge_bias_except(e) ==
    IF e.kind \in {"ResponseParseError", "BiasValidationError"}
    THEN [error |-> Exc("AIServiceError", <<"Bias judgment failed: ">> \o e.msg),
          logged |-> LogRecord("ai_service", "error",
                               <<"Bias judgment validation error: ">> \o e.msg)]
    ELSE [error |-> Exc("AIServiceError", <<"Unexpected error: ">> \o e.msg),
          logged |-> LogRecord("ai_service", "error",
                               <<"Unexpected error in bias judgment: ">> \o e.msg)]

ExceptClause(name, e) ==
    CASE name = "generate_card"  -> generate_card_except(e)
      [] name = "copilot_answer" -> copilot_answer_except(e)
      [] name = "judge_bias"     -> judge_bias_except(e)

\* a str with nothing but white space in it (str.strip() gives '')
WhitespaceOnly(v) ==
    /\ v.type = "str"
    /\ \A i \in 1..Len(v.s) :
          IsSpace(SubSeq(v.s, i, i))

\* variant: `if not question.strip() or not context.strip():`
CopilotGuardStripped(question, context) ==
    \/ ~Truthy(question)
    \/ ~Truthy(context)
    \/ WhitespaceOnly(question)
    \/ WhitespaceOnly(context)

\* variant: `if not question:`
CopilotGuardQuestionOnly(question, context) == ~Truthy(question)

\* copilot_answer: `if not question or not context:`
CopilotGuardRejects(question, context) == ~Truthy(question) \/ ~Truthy(context)

\* variant: `if not content or len(content) <= 50:`
BiasGuardOffByOne(content) == ~Truthy(content) \/ Len(content.s) <= MinContentLength

\* judge_bias: `if not content or len(content) < 50:`
BiasGuardRejects(content) == ~Truthy(content) \/ Len(content.s) < MinContentLength

\* variant: generate_card without the call of the validator
CardCheckSkipped(card_data) == [ok |-> TRUE]

\* generate_card: `validate_card_structure(card_data)`
CardCheck(card_data) == validate_card_structure(card_data)

\* variant: judge_bias unpacks the two fields itself when both are there
BiasCheckUnpackOnly(bias_data) ==
    IF bias_data.type = "dict" /\ {"bias_score", "explanation"} \subseteq DOMAIN bias_data.fields
    THEN [ok |-> TRUE,
          bias_score |-> bias_data.fields.bias_score,
          explanation |-> bias_data.fields.explanation]
    ELSE validate_bias_response(bias_data)

\* judge_bias: `bias_score, explanation = validate_bias_response(bias_data)`
BiasCheck(bias_data) == validate_bias_response(bias_data)

\* variant: the answer is unfenced like a JSON response before it is returned
CopilotResultUnfenced(response) == PyText(StrippedOfFence(response.chars))

\* copilot_answer: `return response.strip()`
CopilotResult(response) == PyText(Strip(response.chars))

-----------------------------------------------------------------------------
(* The state machine *)

NoOutcome == [status |-> "none"]
Returned(v) == [status |-> "returned", value |-> v]
Raised(e) == [status |-> "raised", error |-> e]

\* the operations that run at the same time on one AIService
Calls == 1..NumCalls

\* an operation that has not started
IdleCall ==
    [op |-> [name |-> "none", args |-> <<>>], pc |-> "Idle", prompt |-> <<>>,
     upstream |-> <<>>, waits |-> <<>>, gateway |-> NoOutcome, data |-> PyNone,
     result |-> NoOutcome]

\* no card-creation workflow is running
NoWorkflow == [status |-> "none"]

\* no HTTP request was made
NoResponse == [status |-> 0]

\* call_with_retry: `last_error = None`, and the loop starts at attempt 0
NewFrame == [attempt |-> 0, last_error |-> PyNone]

\* GeminiClient.__init__: the attributes set at construction
NewClient ==
    [model_name |-> "gemini-2.5-flash", max_retries |-> max_retries, retry_delay |-> retry_delay]

Init ==
    /\ op = [name |-> "none", args |-> <<>>]
    /\ pc = "Idle"
    /\ prompt = <<>>
    /\ attempt = 0
    /\ last_error = PyNone
    /\ upstream = <<>>
    /\ gateway = NoOutcome
    /\ data = PyNone
    /\ result = NoOutcome
    /\ trace = <<>>
    /\ log = <<>>
    /\ opsDone = 0
    /\ client = NewClient
    /\ lastOp = [name |-> "none", status |-> "none"]
    /\ calls = [p \in Calls |-> IdleCall]
    /\ frames = [p \in Calls |-> NewFrame]
    /\ workflow = NoWorkflow
    /\ http = NoResponse

\* the try block of operation `name` raised e, after the events tr and the
\* log records lg: the matching except clause logs and raises AIServiceError
Fails(name, e, tr, lg) ==
    /\ result' = Raised(ExceptClause(name, e).error)
    /\ log' = Append(lg, ExceptClause(name, e).logged)
    /\ trace' = Append(tr, Ev("raise", 0))
    /\ pc' = "Failed"

\* the prompt is built and call_with_retry is entered: last_error = None and
\* the loop starts at attempt 0
EntersGateway(p) ==
    /\ prompt' = p
    /\ attempt' = 0
    /\ last_error' = PyNone
    /\ trace' = <<Ev("build", 0), Ev("call", 0)>>
    /\ pc' = "Attempting"
    /\ UNCHANGED <<upstream, gateway, data, result, log>>

\* variant: `context_text=str(context_text)` - None is rendered as a text
ContextAsText(context_text) == PyStr(PyFormat(context_text))

\* generate_card: `context_text=context_text or ""`
ContextOrEmpty(context_text) == IF Truthy(context_text) THEN context_text ELSE PyStr("")

\* AIService.generate_card, up to the gateway call
StartGenerateCard(title, system_prompt, topics_to_cover, context_text) ==
    /\ pc = "Idle"
    /\ opsDone < MaxOps
    /\ op' = [name |-> "generate_card",
              args |-> <<title, system_prompt, topics_to_cover, context_text>>]
    /\ EntersGateway(build_card_generation_prompt(
           title, system_prompt, topics_to_cover, ContextOrEmpty(context_text)))
    /\ UNCHANGED <<opsDone, client, lastOp, calls, frames, workflow, http>>

\* AIService.copilot_answer, up to the gateway call
StartCopilotAnswer(question, context) ==
    /\ pc = "Idle"
    /\ opsDone < MaxOps
    /\ op' = [name |-> "copilot_answer", args |-> <<question, context>>]
    /\ IF CopilotGuardRejects(question, context)
       THEN /\ Fails("copilot_answer",
                     Exc("AIServiceError", <<"Question and context are required">>),
                     <<>>, log)
            /\ UNCHANGED <<prompt, attempt, last_error, upstream, gateway, data>>
       ELSE EntersGateway(build_copilot_prompt(question, context))
    /\ UNCHANGED <<opsDone, client, lastOp, calls, frames, workflow, http>>

\* AIService.judge_bias, up to the gateway call
StartJudgeBias(content) ==
    /\ pc = "Idle"
    /\ opsDone < MaxOps
    /\ op' = [name |-> "judge_bias", args |-> <<content>>]
    /\ IF BiasGuardRejects(content)
       THEN /\ Fails("judge_bias",
                     Exc("AIServiceError", <<"Content must be ", "at least 50 characters">>),
                     <<>>, log)
            /\ UNCHANGED <<prompt, attempt, last_error, upstream, gateway, data>>
       ELSE EntersGateway(build_bias_judge_prompt(content))
    /\ UNCHANGED <<opsDone, client, lastOp, calls, frames, workflow, http>>

\* call_with_retry: the for statement moves on after a failed attempt (and
\* its sleep, if any): the next attempt, or the loop is over and the
\* GeminiClientError raised after it reaches the operation's except clause
LoopNext(le, tr, lg) ==
    IF LoopContinues(attempt)
    THEN /\ attempt' = attempt + 1
         /\ pc' = "Attempting"
         /\ trace' = tr
         /\ log' = lg
         /\ UNCHANGED <<gateway, result>>
    ELSE /\ gateway' = Raised(GatewayFailure(le))
         /\ Fails(op.name, GatewayFailure(le), Append(tr, Ev("gateway_raise", attempt)), lg)
         /\ UNCHANGED attempt

\* call_with_retry: one pass of the loop body, one generate_content call
Attempt(outcome) ==
    /\ pc = "Attempting"
    /\ upstream' = Append(upstream, outcome)
    /\ IF AttemptSucceeds(outcome)
       THEN /\ gateway' = Returned(ReturnedText(outcome))
            /\ log' = Append(log, LogRecord("gemini_client", "debug",
                        <<"Gemini API call successful on attempt ", ToString(attempt + 1)>>))
            /\ trace' = trace \o <<Ev("attempt", attempt), Ev("gateway_return", attempt)>>
            /\ pc' = "Called"
            /\ UNCHANGED <<attempt, last_error, result>>
       ELSE LET e == RecordError(last_error, AttemptError(outcome))
                tr == Append(trace, Ev("attempt", attempt))
                lg == Append(log, LogRecord("gemini_client", "warning",
                        <<"Gemini API call failed (attempt ", ToString(attempt + 1), "/",
                          ToString(client.max_retries), "): ">> \o AttemptError(outcome).msg))
            IN  /\ last_error' = e
                /\ IF ShouldSleep(attempt)
                   THEN /\ pc' = "Sleeping"
                        /\ trace' = tr
                        /\ log' = Append(lg, LogRecord("gemini_client", "info",
                                    <<"Retrying in ", ToString(WaitTime(attempt)), " seconds...">>))
                        /\ UNCHANGED <<attempt, gateway, result>>
                   ELSE LoopNext(e, tr, lg)
    /\ UNCHANGED <<op, prompt, data, opsDone, client, lastOp, calls, frames, workflow, http>>

\* call_with_retry: time.sleep(wait_time) returns
Sleep ==
    /\ pc = "Sleeping"
    /\ LoopNext(last_error, Append(trace, Ev("sleep", WaitTime(attempt))), log)
    /\ client' = ClientAfterBackoff(client)
    /\ UNCHANGED <<op, prompt, last_error, upstream, data, opsDone, lastOp, calls, frames, workflow, http>>

\* a parse step that swallows the parser's error and goes on with no data
ParseSwallowsFailure ==
    /\ pc = "Called"
    /\ op.name \in {"generate_card", "judge_bias"}
    /\ LET parsed == parse_json_response(gateway.value.chars)
       IN  /\ data' = IF parsed.ok THEN parsed.value ELSE PyNone
           /\ pc' = "Parsed"
           /\ trace' = Append(trace, Ev("parse", 0))
           /\ UNCHANGED <<result, log>>
    /\ UNCHANGED <<op, prompt, attempt, last_error, upstream, gateway, opsDone, client, lastOp, calls, frames, workflow, http>>

\* a parse step that calls the gateway again when the parser fails
ParseRetriesGateway ==
    /\ pc = "Called"
    /\ op.name \in {"generate_card", "judge_bias"}
    /\ LET parsed == parse_json_response(gateway.value.chars)
           tr == Append(trace, Ev("parse", 0))
       IN  IF parsed.ok
           THEN /\ data' = parsed.value
                /\ pc' = "Parsed"
                /\ trace' = tr
                /\ UNCHANGED <<attempt, last_error, gateway>>
           ELSE /\ pc' = "Attempting"
                /\ attempt' = 0
                /\ last_error' = PyNone
                /\ gateway' = NoOutcome
                /\ trace' = Append(tr, Ev("call", 0))
                /\ UNCHANGED data
    /\ UNCHANGED <<op, prompt, upstream, result, log, opsDone, client, lastOp, calls, frames, workflow, http>>

\* generate_card, judge_bias: parse_json_response(response)
Parse ==
    /\ pc = "Called"
    /\ op.name \in {"generate_card", "judge_bias"}
    /\ LET parsed == parse_json_response(gateway.value.chars)
           tr == Append(trace, Ev("parse", 0))
       IN  IF parsed.ok
           THEN /\ data' = parsed.value
                /\ pc' = "Parsed"
                /\ trace' = tr
                /\ UNCHANGED <<result, log>>
           ELSE /\ Fails(op.name, parsed.error, tr, Append(log, parsed.logged))
                /\ UNCHANGED data
    /\ UNCHANGED <<op, prompt, attempt, last_error, upstream, gateway, opsDone, client, lastOp, calls, frames, workflow, http>>

\* `card_data.get` on a value that is no dict
NoGetError(v) == Exc("AttributeError", <<"'", TypeName(v), "' object has no attribute 'get'">>)

\* generate_card: validate, log, return card_data
ValidateCard ==
    /\ pc = "Parsed"
    /\ op.name = "generate_card"
    /\ LET tr == Append(trace, Ev("validate", 0))
       IN  IF ~CardCheck(data).ok
           THEN Fails(op.name, CardCheck(data).error, tr, log)
           ELSE IF data.type # "dict"
           THEN Fails(op.name, NoGetError(data), tr, log)
           ELSE /\ result' = Returned(data)
                /\ log' = Append(log, LogRecord("ai_service", "info",
                       <<"Card generated: ",
                         PyFormat(IF "title" \in DOMAIN data.fields
                                  THEN data.fields.title ELSE PyNone)>>))
                /\ trace' = Append(tr, Ev("return", 0))
                /\ pc' = "Done"
    /\ UNCHANGED <<op, prompt, attempt, last_error, upstream, gateway, data, opsDone, client, lastOp, calls, frames, workflow, http>>

\* judge_bias: validate, log, return (bias_score, explanation)
ValidateBias ==
    /\ pc = "Parsed"
    /\ op.name = "judge_bias"
    /\ LET tr == Append(trace, Ev("validate", 0))
       IN  IF BiasCheck(data).ok
           THEN /\ result' = Returned([type |-> "tuple",
                                       items |-> <<BiasCheck(data).bias_score,
                                                   BiasCheck(data).explanation>>])
                /\ log' = Append(log, LogRecord("ai_service", "info",
                                                <<"Bias analysis complete: score=",
                                                  PyFormat(BiasCheck(data).bias_score)>>))
                /\ trace' = Append(tr, Ev("return", 0))
                /\ pc' = "Done"
           ELSE Fails(op.name, BiasCheck(data).error, tr, log)
    /\ UNCHANGED <<op, prompt, attempt, last_error, upstream, gateway, data, opsDone, client, lastOp, calls, frames, workflow, http>>

\* copilot_answer: log, return response.strip()
CopilotReturn ==
    /\ pc = "Called"
    /\ op.name = "copilot_answer"
    /\ result' = Returned(CopilotResult(gateway.value))
    /\ log' = Append(log, LogRecord("ai_service", "info", <<"Copilot answer generated">>))
    /\ trace' = Append(trace, Ev("return", 0))
    /\ pc' = "Done"
    /\ UNCHANGED <<op, prompt, attempt, last_error, upstream, gateway, data, opsDone, client, lastOp, calls, frames, workflow, http>>

\* the operation is over; nothing of it is kept by the service or the client
Finish ==
    /\ pc \in {"Done", "Failed"}
    /\ opsDone < MaxOps
    /\ opsDone' = opsDone + 1
    /\ op' = [name |-> "none", args |-> <<>>]
    /\ pc' = "Idle"
    /\ prompt' = <<>>
    /\ attempt' = 0
    /\ last_error' = PyNone
    /\ upstream' = <<>>
    /\ gateway' = NoOutcome
    /\ data' = PyNone
    /\ result' = NoOutcome
    /\ trace' = <<>>
    /\ log' = <<>>
    /\ lastOp' = [name |-> op.name, status |-> result.status]
    /\ UNCHANGED <<client, calls, frames, workflow, http>>

Next ==
    \/ \E t \in Titles, s \in SystemPrompts, k \in TopicsToCover, c \in ContextTexts :
           StartGenerateCard(t, s, k, c)
    \/ \E q \in Questions, c \in Contexts : StartCopilotAnswer(q, c)
    \/ \E c \in Contents : StartJudgeBias(c)
    \/ \E o \in UpstreamOutcomes : Attempt(o)
    \/ Sleep
    \/ Parse
    \/ ValidateCard
    \/ ValidateBias
    \/ CopilotReturn
    \/ Finish

Spec == Init /\ [][Next]_vars

-----------------------------------------------------------------------------
(* Properties of call_with_retry *)

\* the gateway's events of the operation, in order
GatewayEvents ==
    SelectSeq(trace, LAMBDA e : e.ev \in {"attempt", "sleep", "gateway_return", "gateway_raise"})

\* an upstream call that returned a text of at least one character
GaveText(o) == o.kind = "response" /\ o.text.type = "text" /\ Len(o.text.chars) >= 1

\* an upstream call that returned an empty or a missing payload
GaveNothing(o) == o.kind = "response" /\ ~GaveText(o)

\* str() of the cause of a failed upstream call
CauseText(o) == IF o.kind = "raise" THEN o.error.msg ELSE <<"Empty response from Gemini">>

\* C1: a call of call_with_retry makes at most 3 upstream attempts whatever
\* the upstream does; once 3 attempts have failed the call has failed, and
\* no attempt follows a failed call.
C1_AtMostThreeAttempts ==
    /\ Count(trace, "attempt") <= 3
    /\ Len(upstream) = Count(trace, "attempt")
    /\ (Len(upstream) = 3 /\ ~GaveText(upstream[3]))
          => (gateway.status = "raised" /\ pc = "Failed")
    /\ gateway.status = "raised"
          => (Count(trace, "attempt") = 3 /\ pc = "Failed"
              /\ GatewayEvents[Len(GatewayEvents)].ev = "gateway_raise")

\* C1 witness: three attempts failed in three different ways and the call failed
C1_Witness ==
    /\ gateway.status = "raised"
    /\ Len(upstream) = 3
    /\ upstream[1].kind = "raise"
    /\ upstream[2] = [kind |-> "response", text |-> PyNone]
    /\ upstream[3] = [kind |-> "response", text |-> PyText(<<>>)]

\* C2: the first attempt that returns a non-empty text ends the call: it is
\* the last upstream call of the operation, its text is what call_with_retry
\* returns, unchanged, and no attempt and no sleep follows the return.
C2_NoRetryAfterSuccess ==
    /\ \A i \in 1..Len(upstream) :
          GaveText(upstream[i])
             => (i = Len(upstream) /\ gateway = Returned(upstream[i].text))
    /\ gateway.status = "returned"
          => (/\ GaveText(upstream[Len(upstream)])
              /\ GatewayEvents[Len(GatewayEvents)].ev = "gateway_return"
              /\ pc \notin {"Attempting", "Sleeping"})

\* C2 witness: a fenced, padded text came back on the second attempt and was
\* returned (trimming or unfencing it would change it)
C2_Witness ==
    /\ gateway.status = "returned"
    /\ Len(upstream) = 2
    /\ gateway.value.chars # Strip(gateway.value.chars)
    /\ gateway.value.chars # StrippedOfFence(gateway.value.chars)
    /\ Strip(gateway.value.chars) # StrippedOfFence(gateway.value.chars)

\* C3: when all 3 attempts fail, call_with_retry raises GeminiClientError
\* (it returns nothing, and the operation ends with an error), and the error
\* text ends with the cause of the third attempt.
C3_LastCauseCarried ==
    /\ (Len(upstream) = 3 /\ \A i \in 1..3 : ~GaveText(upstream[i]))
          => (/\ gateway.status = "raised"
              /\ gateway.error.kind = "GeminiClientError"
              /\ gateway.error.msg =
                    <<"Gemini API call failed after ", "3", " attempts: ">>
                    \o CauseText(upstream[3])
              /\ result.status = "raised")
    /\ gateway.status = "raised"
          => (Len(upstream) = 3 /\ \A i \in 1..3 : ~GaveText(upstream[i]))

\* C3 witness: the call failed and the three causes differ from one another
C3_Witness ==
    /\ gateway.status = "raised"
    /\ CauseText(upstream[1]) # CauseText(upstream[3])
    /\ CauseText(upstream[2]) # CauseText(upstream[3])
    /\ CauseText(upstream[1]) # CauseText(upstream[2])

\* the position in the gateway's events of the attempt numbered i (from 1)
AttemptPosition(i) ==
    CHOOSE p \in 1..Len(GatewayEvents) : GatewayEvents[p] = Ev("attempt", i - 1)

\* what follows (in the events, or in the state when nothing followed yet)
\* a failed attempt numbered i: a sleep of 2^(i-1) and the next attempt when
\* i < 3, the failure of the call when i = 3
FollowedAsAFailure(i) ==
    LET g == GatewayEvents
        p == AttemptPosition(i)
    IN  /\ \E q \in 1..Len(g) : g[q] = Ev("attempt", i - 1)
        /\ IF i < 3
           THEN /\ IF p = Len(g) THEN pc = "Sleeping" ELSE g[p + 1] = Ev("sleep", 2 ^ (i - 1))
                /\ p + 1 < Len(g) => g[p + 2] = Ev("attempt", i)
                /\ p + 1 = Len(g) => pc = "Attempting"
           ELSE /\ p < Len(g)
                /\ g[p + 1].ev = "gateway_raise"
                /\ gateway.status = "raised"
                /\ gateway.error.kind = "GeminiClientError"

\* C4: an attempt that returns an empty or a missing payload is a failed
\* attempt like one that raised: it is counted, call_with_retry does not
\* return on it, the same backoff and retry (or final failure) follow it, and
\* 3 empty payloads in a row make the call fail with GeminiClientError.
C4_EmptyPayloadIsAFailure ==
    /\ Len(upstream) = Count(trace, "attempt")
    /\ \A i \in 1..Len(upstream) :
          (GaveNothing(upstream[i]) \/ upstream[i].kind = "raise")
             => (/\ FollowedAsAFailure(i)
                 /\ i = Len(upstream) => gateway.status # "returned")
    /\ (Len(upstream) = 3 /\ \A i \in 1..3 : GaveNothing(upstream[i]))
          => (/\ gateway.status = "raised"
              /\ gateway.error.kind = "GeminiClientError"
              /\ gateway.error.msg =
                    <<"Gemini API call failed after ", "3", " attempts: ",
                      "Empty response from Gemini">>)

\* C4 witness: three payloads in a row were missing or empty and the call failed
C4_Witness ==
    /\ gateway.status = "raised"
    /\ upstream[1] = [kind |-> "response", text |-> PyText(<<>>)]
    /\ upstream[2] = [kind |-> "response", text |-> PyNone]
    /\ upstream[3] = [kind |-> "response", text |-> PyText(<<>>)]

\* C5: every sleep comes right after a failed attempt i < 2 (numbered from
\* 0), lasts retry_delay * 2^i = 2^i and is followed by attempt i + 1; every
\* failed attempt i < 2 is followed by such a sleep; nothing sleeps after the
\* last failed attempt or after a success; a call that fails twice and then
\* succeeds is attempt, sleep 1, attempt, sleep 2, attempt, return.
C5_BackoffSchedule ==
    LET g == GatewayEvents
    IN  /\ \A p \in 1..Len(g) :
              g[p].ev = "sleep"
                 => (/\ p > 1
                     /\ g[p - 1].ev = "attempt"
                     /\ g[p - 1].n < 2
                     /\ ~GaveText(upstream[g[p - 1].n + 1])
                     /\ g[p].n = 2 ^ (g[p - 1].n)
                     /\ p < Len(g) => g[p + 1] = Ev("attempt", g[p - 1].n + 1)
                     /\ p = Len(g) => pc = "Attempting")
        /\ \A p \in 1..Len(g) :
              (g[p].ev = "attempt" /\ g[p].n < 2 /\ ~GaveText(upstream[g[p].n + 1]))
                 => IF p = Len(g) THEN pc = "Sleeping" ELSE g[p + 1].ev = "sleep"
        /\ pc = "Sleeping" => (g # <<>> /\ g[Len(g)].ev = "attempt" /\ g[Len(g)].n < 2)
        /\ Count(trace, "sleep") <= 2
        /\ (gateway.status = "returned" /\ Len(upstream) = 3)
              => g = << Ev("attempt", 0), Ev("sleep", 1), Ev("attempt", 1), Ev("sleep", 2),
                        Ev("attempt", 2), Ev("gateway_return", 2) >>
        /\ gateway.status = "raised"
              => g = << Ev("attempt", 0), Ev("sleep", 1), Ev("attempt", 1), Ev("sleep", 2),
                        Ev("attempt", 2), Ev("gateway_raise", 2) >>

\* C5 witness: the call failed on attempts 1 and 2 and succeeded on attempt 3
C5_Witness ==
    /\ gateway.status = "returned"
    /\ Len(upstream) = 3
    /\ Count(trace, "sleep") = 2

-----------------------------------------------------------------------------
(* Properties of the orchestration service *)

\* an argument that is empty or absent
EmptyOrAbsent(v) == v.type = "none" \/ (v.type = "str" /\ v.s = "")

\* the operation ended with AIServiceError
FailedWithAIServiceError ==
    pc = "Failed" /\ result.status = "raised" /\ result.error.kind = "AIServiceError"

\* C6: copilot_answer with an empty or absent question or context (or both)
\* fails with AIServiceError, the message holds "Question and context are
\* required", and the gateway is not invoked: no call_with_retry call and no
\* upstream attempt.
C6_CopilotGuardBeforeGateway ==
    (op.name = "copilot_answer"
       /\ (EmptyOrAbsent(op.args[1]) \/ EmptyOrAbsent(op.args[2])))
    => (/\ FailedWithAIServiceError
        /\ Contains(result.error.msg, "Question and context are required")
        /\ Count(trace, "call") = 0
        /\ Count(trace, "attempt") = 0
        /\ upstream = <<>>
        /\ gateway.status = "none")

\* C6 witness: a question was given and the context was empty; the operation failed
C6_Witness ==
    /\ op.name = "copilot_answer"
    /\ op.args[1] = PyStr("What happened?")
    /\ op.args[2] = PyStr("")
    /\ pc = "Failed"

\* C7: judge_bias with absent or empty content, or content shorter than 50,
\* fails with AIServiceError naming the threshold and never invokes the
\* gateway; content of length 50 or more passes the guard and the gateway is
\* invoked.
C7_BiasGuardThreshold ==
    op.name = "judge_bias"
    => IF EmptyOrAbsent(op.args[1]) \/ Len(op.args[1].s) < 50
       THEN /\ FailedWithAIServiceError
            /\ Contains(result.error.msg, "at least 50 characters")
            /\ Count(trace, "call") = 0
            /\ upstream = <<>>
            /\ gateway.status = "none"
       ELSE /\ Count(trace, "call") = 1
            /\ ~Contains(IF result.status = "raised" THEN result.error.msg ELSE <<>>,
                         "at least 50 characters")
            /\ pc # "Attempting" => Len(upstream) >= 1

\* C7 witness: content of exactly 50 characters reached the upstream model
C7_Witness ==
    /\ op.name = "judge_bias"
    /\ op.args[1].type = "str"
    /\ Len(op.args[1].s) = 50
    /\ Len(upstream) >= 1

\* C8: whatever the stage that failed (guard, gateway exhaustion, parse,
\* validation), the caller of generate_card, copilot_answer or judge_bias
\* gets AIServiceError and no other kind of error; a failed gateway call
\* always surfaces that way.
C8_OnlyAIServiceErrorEscapes ==
    /\ result.status = "raised" => result.error.kind = "AIServiceError"
    /\ pc = "Failed" <=> result.status = "raised"
    /\ gateway.status = "raised" => FailedWithAIServiceError
    /\ \A i \in 1..Len(trace) : trace[i].ev = "raise" => (i = Len(trace) /\ pc = "Failed")

\* C8 witness: generate_card ended by the exhaustion of the gateway's attempts
C8_Witness ==
    /\ op.name = "generate_card"
    /\ gateway.status = "raised"
    /\ result.status = "raised"

\* the three field constraints of a generated card
ValidCard(v) ==
    /\ v.type = "dict"
    /\ {"title", "description", "keywords"} \subseteq DOMAIN v.fields
    /\ v.fields.title.type = "str"
    /\ Len(v.fields.title.s) >= 1
    /\ v.fields.description.type = "str"
    /\ Len(v.fields.description.s) >= MinDescriptionLength
    /\ v.fields.keywords.type = "list"
    /\ Len(v.fields.keywords.items) >= 1

\* C9: generate_card returns only a decoded response that meets the three
\* field constraints, and returns it whole; a decoded response that breaks
\* one (missing field, numeric or empty title, short description, keywords
\* not a list or empty) makes the operation fail with AIServiceError.
C9_ReturnedCardIsValid ==
    op.name = "generate_card"
    => (/\ result.status = "returned"
              => (/\ ValidCard(result.value)
                  /\ result.value = data
                  /\ Count(trace, "validate") = 1)
        /\ (Count(trace, "validate") = 1 /\ ~ValidCard(data))
              => FailedWithAIServiceError)

\* C9 witness: a card at the limits (description of the minimum length, one
\* keyword) was returned
C9_Witness ==
    /\ op.name = "generate_card"
    /\ result.status = "returned"
    /\ Len(result.value.fields.description.s) = MinDescriptionLength
    /\ Len(result.value.fields.keywords.items) = 1

\* a decoded response with a numeric bias_score
HasNumericScore(v) ==
    v.type = "dict" /\ "bias_score" \in DOMAIN v.fields /\ v.fields.bias_score.type = "num"

\* C10: judge_bias returns a pair only with a score within [0, 100] (here in
\* tenths), returned as decoded; 0.0 and 100.0 are accepted; a score above
\* 100 or below 0 makes the operation fail with AIServiceError.
C10_ReturnedScoreInRange ==
    op.name = "judge_bias"
    => (/\ result.status = "returned"
              => (/\ HasNumericScore(data)
                  /\ result.value.items[1] = data.fields.bias_score
                  /\ result.value.items[1].tenths >= 0
                  /\ result.value.items[1].tenths <= 1000)
        /\ (Count(trace, "validate") = 1 /\ HasNumericScore(data)
              /\ (data.fields.bias_score.tenths > 1000 \/ data.fields.bias_score.tenths < 0))
              => FailedWithAIServiceError
        /\ (Count(trace, "validate") = 1 /\ data \in {JsonValue(DocBiasZero), JsonValue(DocBiasHundred)})
              => (result.status = "returned" /\ result.value.items[1] = data.fields.bias_score))

\* C10 witness: the score 100.0 was returned
C10_Witness ==
    /\ op.name = "judge_bias"
    /\ result.status = "returned"
    /\ result.value.items[1] = PyNum(1000)

\* a guard of copilot_answer or judge_bias turned the arguments down
GuardRejected ==
    \/ op.name = "copilot_answer" /\ CopilotGuardRejects(op.args[1], op.args[2])
    \/ op.name = "judge_bias" /\ BiasGuardRejects(op.args[1])

\* the fixed message of the guard of operation `name`
GuardMessage(name) ==
    IF name = "copilot_answer"
    THEN <<"Question and context are required">>
    ELSE <<"Content must be ", "at least 50 characters">>

\* C11: copilot_answer never returns an empty string: whenever the operation
\* returns, the answer has at least one character.
C11_CopilotAnswerNeverEmpty ==
    (op.name = "copilot_answer" /\ result.status = "returned")
       => Len(result.value.chars) >= 1

\* C12: an empty question or context, or empty or short content, is raised
\* as AIServiceError directly: the caller sees the guard's fixed message with
\* no prefix of a failure-wrapping handler, and nothing is logged as a
\* failure of the operation.
C12_GuardErrorRaisedDirectly ==
    (GuardRejected /\ result.status = "raised")
       => (/\ result.error.kind = "AIServiceError"
           /\ result.error.msg = GuardMessage(op.name)
           /\ \A i \in 1..Len(log) : log[i].level # "error")

\* the stage events of the operation, in order (the gateway's attempts and
\* sleeps left out)
StageEvents ==
    SelectSeq(trace, LAMBDA e : e.ev \notin {"attempt", "sleep"})

\* the names of a sequence of events
EventNames(tr) == [i \in 1..Len(tr) |-> tr[i].ev]

\* s is the beginning of t
IsPrefix(s, t) == Len(s) <= Len(t) /\ s = SubSeq(t, 1, Len(s))

\* s is the end of t
IsSuffix(s, t) == Len(s) <= Len(t) /\ s = SubSeq(t, Len(t) - Len(s) + 1, Len(t))

\* the courses a generate_card or judge_bias operation can take
StageCourses ==
    { <<"build", "call", "gateway_return", "parse", "validate", "return">>,
      <<"build", "call", "gateway_return", "parse", "validate", "raise">>,
      <<"build", "call", "gateway_return", "parse", "raise">>,
      <<"build", "call", "gateway_raise", "raise">>,
      <<"raise">> }

\* the validator of the operation applied to the decoded response
StageCheck(v) == IF op.name = "generate_card" THEN CardCheck(v) ELSE BiasCheck(v)

\* the error of the stage at which the operation failed
StageCause ==
    IF Count(trace, "validate") = 1 THEN StageCheck(data).error
    ELSE IF Count(trace, "parse") = 1 THEN parse_json_response(gateway.value.chars).error
    ELSE IF Count(trace, "gateway_raise") = 1 THEN gateway.error
    ELSE Exc("AIServiceError", GuardMessage(op.name))

\* C13: in a generate_card or judge_bias operation the stages happen only in
\* the order build, gateway call, parse, validate, return: the parser runs
\* only on a text the gateway returned, the validator only on what the parser
\* decoded, a value is returned only when the validator accepted it; a failed
\* stage ends the operation in Failed with that stage's cause in the message
\* and no stage after it; nothing follows Done or Failed.
C13_StagesInOrder ==
    op.name \in {"generate_card", "judge_bias"}
    => LET s == EventNames(StageEvents)
       IN  /\ \E c \in StageCourses : IsPrefix(s, c)
           /\ Count(trace, "parse") = 1
                 => (gateway.status = "returned" /\ Truthy(gateway.value))
           /\ Count(trace, "validate") = 1
                 => (/\ parse_json_response(gateway.value.chars).ok
                     /\ data = parse_json_response(gateway.value.chars).value)
           /\ Count(trace, "return") = 1
                 => (/\ StageCheck(data).ok
                     /\ result.status = "returned")
           /\ pc = "Done" <=> (s # <<>> /\ s[Len(s)] = "return")
           /\ pc = "Failed" <=> (s # <<>> /\ s[Len(s)] = "raise")
           /\ pc = "Failed"
                 => (/\ result.status = "raised"
                     /\ IsSuffix(StageCause.msg, result.error.msg))
           /\ pc \in {"Done", "Failed"}
                 => (trace # <<>> /\ trace[Len(trace)].ev \in {"return", "raise"})
           /\ Count(trace, "gateway_raise") = 1 => Count(trace, "parse") = 0
           /\ (Count(trace, "parse") = 1 /\ ~parse_json_response(gateway.value.chars).ok)
                 => (pc = "Failed" /\ Count(trace, "validate") = 0)
           /\ (Count(trace, "validate") = 1 /\ ~StageCheck(data).ok)
                 => (pc = "Failed" /\ Count(trace, "return") = 0)

\* C13 witness: judge_bias got a text on the second attempt, the parser
\* decoded it and the validator turned it down
C13_Witness ==
    /\ op.name = "judge_bias"
    /\ pc = "Failed"
    /\ Len(upstream) = 2
    /\ EventNames(StageEvents) =
          <<"build", "call", "gateway_return", "parse", "validate", "raise">>

\* C14: an operation invokes call_with_retry at most once; after the parser
\* or the validator has run (and so after they failed) there is no gateway
\* call, no upstream attempt and no sleep; one operation therefore causes at
\* most 3 upstream attempts in total.
C14_NoRetryAcrossTheBoundary ==
    /\ Count(trace, "call") <= 1
    /\ Count(trace, "gateway_return") + Count(trace, "gateway_raise") <= 1
    /\ Count(trace, "attempt") <= 3
    /\ Len(upstream) <= 3
    /\ Count(trace, "parse") <= 1
    /\ Count(trace, "validate") <= 1
    /\ \A i, j \in 1..Len(trace) :
          (i < j /\ trace[i].ev \in {"gateway_return", "gateway_raise", "parse", "validate"})
             => trace[j].ev \notin {"call", "attempt", "sleep"}
    /\ pc \in {"Attempting", "Sleeping"}
          => (Count(trace, "parse") = 0 /\ Count(trace, "validate") = 0)

\* C14 witness: the third attempt gave a text, the parser failed on it, and
\* the operation failed after 3 upstream calls and one gateway call
C14_Witness ==
    /\ pc = "Failed"
    /\ Count(trace, "parse") = 1
    /\ Count(trace, "validate") = 0
    /\ Len(upstream) = 3
    /\ Count(trace, "call") = 1

-----------------------------------------------------------------------------
(* One operation taken alone: what it gives on a new AIService, as a      *)
(* function of its arguments and of what the upstream calls did.          *)

\* the outcome of one call_with_retry on a new client, the upstream calls
\* having done `outcomes`: the text of the first successful call, or the
\* failure carrying the cause of the last one
GatewayAlone(outcomes) ==
    LET good == {i \in 1..Len(outcomes) : AttemptSucceeds(outcomes[i])}
    IN  IF good # {}
        THEN Returned(ReturnedText(outcomes[CHOOSE i \in good : \A j \in good : i <= j]))
        ELSE Raised(Exc("GeminiClientError",
                 <<"Gemini API call failed after ", ToString(max_retries), " attempts: ">>
                 \o AttemptError(outcomes[Len(outcomes)]).msg))

\* the guard of operation `name` turns the arguments down
RejectedAlone(name, args) ==
    \/ name = "copilot_answer" /\ CopilotGuardRejects(args[1], args[2])
    \/ name = "judge_bias" /\ BiasGuardRejects(args[1])

\* what operation `name` gives its caller on a new AIService
OutcomeAlone(name, args, outcomes) ==
    IF RejectedAlone(name, args)
    THEN Raised(ExceptClause(name, Exc("AIServiceError", GuardMessage(name))).error)
    ELSE LET g == GatewayAlone(outcomes)
         IN  IF g.status = "raised" THEN Raised(ExceptClause(name, g.error).error)
             ELSE IF name = "copilot_answer" THEN Returned(CopilotResult(g.value))
             ELSE LET parsed == parse_json_response(g.value.chars)
                      checked == IF name = "generate_card" THEN CardCheck(parsed.value)
                                 ELSE BiasCheck(parsed.value)
                  IN  IF ~parsed.ok THEN Raised(ExceptClause(name, parsed.error).error)
                      ELSE IF ~checked.ok THEN Raised(ExceptClause(name, checked.error).error)
                      ELSE IF name = "generate_card"
                      THEN IF parsed.value.type # "dict"
                           THEN Raised(ExceptClause(name, NoGetError(parsed.value)).error)
                           ELSE Returned(parsed.value)
                      ELSE Returned([type |-> "tuple",
                                     items |-> <<checked.bias_score, checked.explanation>>])

\* the upstream calls one call_with_retry makes on a new client are over:
\* one of them succeeded, or max_retries of them failed
AttemptsComplete(outcomes) ==
    \/ Len(outcomes) = max_retries
    \/ outcomes # <<>> /\ AttemptSucceeds(outcomes[Len(outcomes)])

\* C15: the service keeps nothing between operations: whatever operations
\* came before and however they ended, the client has the configuration it
\* was built with, an operation starts with attempt 0 and no last error, has
\* its full budget of 3 attempts (it fails at the gateway only after 3, and
\* its sleeps are 1 then 2), and ends with the result the same arguments and
\* upstream responses give on a new instance.
C15_StatelessBetweenOperations ==
    /\ client = NewClient
    /\ pc = "Idle"
          => (/\ attempt = 0 /\ last_error = PyNone /\ upstream = <<>>
              /\ gateway = NoOutcome /\ data = PyNone /\ result = NoOutcome)
    /\ (pc = "Attempting" /\ upstream = <<>>)
          => (attempt = 0 /\ last_error = PyNone /\ gateway = NoOutcome /\ result = NoOutcome)
    /\ pc = "Attempting" => (Len(upstream) < 3 /\ attempt = Len(upstream))
    /\ gateway.status = "raised" => Len(upstream) = 3
    /\ LET sleeps == SelectSeq(trace, LAMBDA e : e.ev = "sleep")
       IN  \A k \in 1..Len(sleeps) : sleeps[k].n = 2 ^ (k - 1)
    /\ pc \in {"Done", "Failed"}
          => (/\ RejectedAlone(op.name, op.args) \/ AttemptsComplete(upstream)
              /\ result = OutcomeAlone(op.name, op.args, upstream))

\* C15 witness: generate_card failed after its 3 attempts, and the
\* copilot_answer that followed it on the same instance used 3 attempts of
\* its own and returned an answer
C15_Witness ==
    /\ lastOp = [name |-> "generate_card", status |-> "raised"]
    /\ opsDone >= 1
    /\ op.name = "copilot_answer"
    /\ pc = "Done"
    /\ Len(upstream) = 3
    /\ result.status = "returned"

-----------------------------------------------------------------------------
(* Operations running at the same time on one AIService and one           *)
(* GeminiClient: each call of an operation is a Python call with its own   *)
(* locals; the client and the service are shared.  One step of a call is   *)
(* one step of the operation above, taken on that call's state.            *)

\* the variables of the one-at-a-time model
oneAtATime ==
    <<op, pc, prompt, attempt, last_error, upstream, gateway, data, result, trace, log,
      opsDone, lastOp, workflow, http>>

\* the operations started at the same time
ConcurrentOperations ==
    { [name |-> "generate_card",
       args |-> <<PyStr("T"), PyStr("You are a historian."), PyStr("causes"), PyNone>>],
      [name |-> "copilot_answer", args |-> <<PyStr("What happened?"), PyStr("Some context")>>],
      [name |-> "judge_bias", args |-> <<PyStr("Too short")>>],
      [name |-> "judge_bias",
       args |-> <<PyStr("Content that is exactly fifty characters in length")>>] }

\* what an upstream call made by one of them does
ConcurrentOutcomes ==
    { [kind |-> "raise", error |-> Exc("ConnectionError", <<"connection reset">>)],
      [kind |-> "response", text |-> PyText(<<>>)],
      [kind |-> "response", text |-> PyText(<<DocBiasOk>>)] }

\* variant: attempt and last_error kept on the shared client, one for all calls
FrameOfShared(p) == 1

\* the locals of call_with_retry belong to the call: one frame for each
FrameOf(p) == p

\* the prompt of an operation
PromptOf(name, args) ==
    IF name = "generate_card"
    THEN build_card_generation_prompt(args[1], args[2], args[3], ContextOrEmpty(args[4]))
    ELSE IF name = "copilot_answer" THEN build_copilot_prompt(args[1], args[2])
    ELSE build_bias_judge_prompt(args[1])

\* the try block of call c raised e: its except clause raises AIServiceError
CallFails(c, e) ==
    [c EXCEPT !.result = Raised(ExceptClause(c.op.name, e).error), !.pc = "Failed"]

\* the for statement moves on after a failed attempt of call c with locals f
CallLoopNext(c, f) ==
    IF LoopContinues(f.attempt)
    THEN [call |-> [c EXCEPT !.pc = "Attempting"],
          frame |-> [f EXCEPT !.attempt = @ + 1]]
    ELSE [call |-> CallFails([c EXCEPT !.gateway = Raised(GatewayFailure(f.last_error))],
                             GatewayFailure(f.last_error)),
          frame |-> f]

\* an operation starts: its guard, its prompt, and call_with_retry is entered
CallStart(p, o) ==
    /\ calls[p].pc = "Idle"
    /\ LET c == [IdleCall EXCEPT !.op = o]
       IN  IF RejectedAlone(o.name, o.args)
           THEN /\ calls' = [calls EXCEPT ![p] =
                                CallFails(c, Exc("AIServiceError", GuardMessage(o.name)))]
                /\ UNCHANGED frames
           ELSE /\ calls' = [calls EXCEPT ![p] =
                                [c EXCEPT !.prompt = PromptOf(o.name, o.args),
                                          !.pc = "Attempting"]]
                /\ frames' = [frames EXCEPT ![FrameOf(p)] = NewFrame]
    /\ UNCHANGED <<oneAtATime, client>>

\* call_with_retry of call p: one pass of the loop body
CallAttempt(p, outcome) ==
    /\ calls[p].pc = "Attempting"
    /\ LET c == [calls[p] EXCEPT !.upstream = Append(@, outcome)]
           f == frames[FrameOf(p)]
           failed == [f EXCEPT !.last_error = RecordError(f.last_error, AttemptError(outcome))]
       IN  IF AttemptSucceeds(outcome)
           THEN /\ calls' = [calls EXCEPT ![p] =
                                [c EXCEPT !.gateway = Returned(ReturnedText(outcome)),
                                          !.pc = "Called"]]
                /\ UNCHANGED frames
           ELSE IF ShouldSleep(f.attempt)
           THEN /\ calls' = [calls EXCEPT ![p] = [c EXCEPT !.pc = "Sleeping"]]
                /\ frames' = [frames EXCEPT ![FrameOf(p)] = failed]
           ELSE /\ calls' = [calls EXCEPT ![p] = CallLoopNext(c, failed).call]
                /\ frames' = [frames EXCEPT ![FrameOf(p)] = CallLoopNext(c, failed).frame]
    /\ UNCHANGED <<oneAtATime, client>>

\* call_with_retry of call p: time.sleep(wait_time) returns
CallSleep(p) ==
    /\ calls[p].pc = "Sleeping"
    /\ LET f == frames[FrameOf(p)]
           c == [calls[p] EXCEPT !.waits = Append(@, WaitTime(f.attempt))]
       IN  /\ calls' = [calls EXCEPT ![p] = CallLoopNext(c, f).call]
           /\ frames' = [frames EXCEPT ![FrameOf(p)] = CallLoopNext(c, f).frame]
    /\ client' = ClientAfterBackoff(client)
    /\ UNCHANGED oneAtATime

\* generate_card, judge_bias of call p: parse_json_response(response)
CallParse(p) ==
    /\ calls[p].pc = "Called"
    /\ calls[p].op.name \in {"generate_card", "judge_bias"}
    /\ LET parsed == parse_json_response(calls[p].gateway.value.chars)
       IN  calls' = [calls EXCEPT ![p] =
                        IF parsed.ok THEN [@ EXCEPT !.data = parsed.value, !.pc = "Parsed"]
                        ELSE CallFails(@, parsed.error)]
    /\ UNCHANGED <<oneAtATime, client, frames>>

\* generate_card, judge_bias of call p: validate and return
CallValidate(p) ==
    /\ calls[p].pc = "Parsed"
    /\ LET c == calls[p]
           checked == IF c.op.name = "generate_card" THEN CardCheck(c.data)
                      ELSE BiasCheck(c.data)
       IN  calls' = [calls EXCEPT ![p] =
                        IF ~checked.ok THEN CallFails(c, checked.error)
                        ELSE [c EXCEPT !.pc = "Done",
                                       !.result =
                                          IF c.op.name = "generate_card" THEN Returned(c.data)
                                          ELSE Returned([type |-> "tuple",
                                                         items |-> <<checked.bias_score,
                                                                     checked.explanation>>])]]
    /\ UNCHANGED <<oneAtATime, client, frames>>

\* copilot_answer of call p: return response.strip()
CallCopilotReturn(p) ==
    /\ calls[p].pc = "Called"
    /\ calls[p].op.name = "copilot_answer"
    /\ LET c == calls[p]
       IN  calls' = [calls EXCEPT ![p] =
                        [c EXCEPT !.result = Returned(CopilotResult(c.gateway.value)),
                                  !.pc = "Done"]]
    /\ UNCHANGED <<oneAtATime, client, frames>>

ConcurrentNext ==
    \/ \E p \in Calls, o \in ConcurrentOperations : CallStart(p, o)
    \/ \E p \in Calls, o \in ConcurrentOutcomes : CallAttempt(p, o)
    \/ \E p \in Calls : CallSleep(p)
    \/ \E p \in Calls : CallParse(p)
    \/ \E p \in Calls : CallValidate(p)
    \/ \E p \in Calls : CallCopilotReturn(p)

ConcurrentSpec == Init /\ [][ConcurrentNext]_vars

\* C16: operations running at the same time on one AIService and one
\* GeminiClient, under every interleaving: each call's attempt counter and
\* last error count and hold its own upstream failures and no other's, each
\* makes at most 3 attempts with its own sleeps of 1 then 2, the shared
\* client is left as built, and each ends with the outcome its arguments
\* and its own upstream responses give when it runs alone.
C16_ConcurrentCallsAreIndependent ==
    /\ client = NewClient
    /\ \A p \in Calls :
          LET c == calls[p]
              f == frames[p]
              n == Len(c.upstream)
          IN  /\ n <= 3
              /\ c.pc = "Attempting"
                    => (/\ f.attempt = n
                        /\ \A i \in 1..n : ~AttemptSucceeds(c.upstream[i]))
              /\ c.pc = "Sleeping" => (n >= 1 /\ f.attempt = n - 1)
              /\ (c.pc = "Attempting" /\ n = 0) => f = NewFrame
              /\ (c.pc \in {"Attempting", "Sleeping"} /\ n >= 1)
                    => f.last_error = AttemptError(c.upstream[n])
              /\ IsPrefix(c.waits, <<1, 2>>)
              /\ c.gateway.status # "none"
                    => (AttemptsComplete(c.upstream) /\ c.gateway = GatewayAlone(c.upstream))
              /\ c.pc \in {"Done", "Failed"}
                    => (/\ RejectedAlone(c.op.name, c.op.args) \/ AttemptsComplete(c.upstream)
                        /\ c.result = OutcomeAlone(c.op.name, c.op.args, c.upstream))

\* C16 witness: two calls are inside call_with_retry at the same time, one
\* asleep after its second failure, the other after its first, with
\* different last errors; a third state of the kind ends both differently
C16_Witness ==
    /\ calls[1].pc = "Sleeping"
    /\ calls[2].pc = "Sleeping"
    /\ Len(calls[1].upstream) = 2
    /\ Len(calls[2].upstream) = 1
    /\ frames[1].last_error # frames[2].last_error
    /\ calls[1].op.name # calls[2].op.name

-----------------------------------------------------------------------------
(* Properties of parse_json_response *)

\* the forms in which a response carries document d inside a json fence
FencedForms(d) == { Fenced(<<"j", "s", "o", "n">>, d), FencedJsonPadded(d) }

\* C17: for every JSON text J, what the parser decodes from J inside a json
\* fence (with or without white space and newlines around it) is what it
\* decodes from J alone, and generate_card on the fenced form returns the
\* card it returns on J alone.
C17_FenceStrippingPreservesValue ==
    \A d \in JsonDocuments :
       (op.name \in {"generate_card", "judge_bias"}
          /\ gateway.status = "returned"
          /\ gateway.value.chars \in FencedForms(d)
          /\ Count(trace, "parse") = 1)
       => (/\ parse_json_response(<<d>>).ok
           /\ parse_json_response(<<d>>).value = JsonValue(d)
           /\ Count(trace, "validate") = 1 \/ pc = "Parsed"
           /\ data = parse_json_response(<<d>>).value
           /\ pc \in {"Done", "Failed"}
                 => result = OutcomeAlone(op.name, op.args,
                                 <<[kind |-> "response", text |-> PyText(<<d>>)]>>)
           /\ (op.name = "generate_card" /\ ValidCard(JsonValue(d)) /\ pc \in {"Done", "Failed"})
                 => result = Returned(JsonValue(d)))

\* C17 witness: generate_card returned the card of a response that carried
\* it inside a json fence with white space around the block
C17_Witness ==
    /\ op.name = "generate_card"
    /\ gateway.status = "returned"
    /\ gateway.value.chars = FencedJsonPadded(DocCardOneKeyword)
    /\ result = Returned(JsonValue(DocCardOneKeyword))

-----------------------------------------------------------------------------
(* parse_json_response called on its own: one call on one argument *)

\* the arguments of the call: the texts a response carries, the empty text,
\* and values that are no text
ParserInputs ==
    { PyText(t) : t \in ResponseTexts }
    \cup { PyText(Fenced(<<"j", "s", "o", "n">>, d)) : d \in JsonDocuments }
    \cup { PyText(<<>>), PyNone, PyInt(42), PyNum(420), PyList(<<PyStr("x")>>) }

\* str() of the AttributeError raised by `response_text.strip()`
NoStripMessage(v) == <<"'", TypeName(v), "' object has no attribute 'strip'">>

\* variant: parse_json_response without its `except Exception` clause
ParserOutcomeNoCatchAll(response_text) ==
    IF response_text.type = "text" THEN parse_json_response(response_text.chars)
    ELSE [ok |-> FALSE, error |-> Exc("AttributeError", NoStripMessage(response_text))]

\* parse_json_response on any argument: a text goes through the stripping
\* and json.loads; on a value that is no text `.strip()` raises, and the
\* `except Exception` clause raises ResponseParseError
ParserOutcome(response_text) ==
    IF response_text.type = "text" THEN parse_json_response(response_text.chars)
    ELSE [ok |-> FALSE,
          error |-> Exc("ResponseParseError",
                        <<"Unexpected error parsing response: ">>
                        \o NoStripMessage(response_text)),
          logged |-> LogRecord("response_parser", "error",
                               <<"Unexpected error parsing response: ">>
                               \o NoStripMessage(response_text))]

ParserInit ==
    /\ op \in { [name |-> "parse_json_response", args |-> <<v>>] : v \in ParserInputs }
    /\ pc = "Called"
    /\ prompt = <<>>
    /\ attempt = 0
    /\ last_error = PyNone
    /\ upstream = <<>>
    /\ gateway = NoOutcome
    /\ data = PyNone
    /\ result = NoOutcome
    /\ trace = <<>>
    /\ log = <<>>
    /\ opsDone = 0
    /\ client = NewClient
    /\ lastOp = [name |-> "none", status |-> "none"]
    /\ calls = [p \in Calls |-> IdleCall]
    /\ frames = [p \in Calls |-> NewFrame]
    /\ workflow = NoWorkflow
    /\ http = NoResponse

\* the call returns the decoded value or raises
ParserCall ==
    /\ pc = "Called"
    /\ op.name = "parse_json_response"
    /\ LET out == ParserOutcome(op.args[1])
       IN  IF out.ok
           THEN /\ result' = Returned(out.value)
                /\ pc' = "Done"
                /\ log' = log
           ELSE /\ result' = Raised(out.error)
                /\ pc' = "Failed"
                /\ log' = IF "logged" \in DOMAIN out THEN Append(log, out.logged) ELSE log
    /\ trace' = Append(trace, Ev("parse", 0))
    /\ UNCHANGED <<op, prompt, attempt, last_error, upstream, gateway, data, opsDone,
                   client, lastOp, calls, frames, workflow, http>>

ParserNext == ParserCall

ParserSpec == ParserInit /\ [][ParserNext]_vars

\* the text handed to json.loads is exactly one JSON document
Decodable(v) ==
    /\ v.type = "text"
    /\ Len(StrippedOfFence(v.chars)) = 1
    /\ StrippedOfFence(v.chars)[1] \in JsonDocuments

\* C18: parse_json_response fails only with ResponseParseError: on every
\* text that cannot be decoded after the fence stripping, and on an
\* argument that makes the parsing raise anything else, the error raised is
\* ResponseParseError; a call on a decodable text raises nothing.
C18_OnlyResponseParseError ==
    (op.name = "parse_json_response" /\ pc # "Called")
    => (/\ result.status = "raised" => result.error.kind = "ResponseParseError"
        /\ ~Decodable(op.args[1])
              => (/\ pc = "Failed"
                  /\ result.status = "raised"
                  /\ result.error.kind = "ResponseParseError")
        /\ Decodable(op.args[1]) => (pc = "Done" /\ result.status = "returned"))

\* C18 witness: the parser was called on None and raised ResponseParseError
\* from its catch-all clause
C18_Witness ==
    /\ op.name = "parse_json_response"
    /\ op.args[1] = PyNone
    /\ result.status = "raised"
    /\ result.error.kind = "ResponseParseError"
    /\ result.error.msg[1] = "Unexpected error parsing response: "

\* C19: whenever parse_json_response returns, the value returned is a
\* key/value map: a text that decodes to an array, a number or null is not
\* returned as a successful parse.
C19_ParsedValueIsAnObject ==
    (op.name = "parse_json_response" /\ result.status = "returned")
       => result.value.type = "dict"

-----------------------------------------------------------------------------
(* Properties of the bias judgment's failures *)

\* the message of the error the operation raised (empty when it raised none)
RaisedMessage == IF result.status = "raised" THEN result.error.msg ELSE <<>>

\* a decoded response with both fields of a bias judgment
HasBothBiasFields(v) ==
    v.type = "dict" /\ {"bias_score", "explanation"} \subseteq DOMAIN v.fields

\* C20: judge_bias on a decoded response with bias_score 150.0 or -10.0 and
\* an explanation fails with a message holding "Bias score out of range"; on
\* a decoded response without bias_score or without explanation it fails
\* with a message holding "Invalid bias judge response format"; a message
\* never holds both, and each is given only for its own kind of response.
C20_OutOfRangeDistinctFromMissing ==
    (op.name = "judge_bias" /\ Count(trace, "validate") = 1)
    => (/\ data \in {JsonValue(DocBiasTooHigh), JsonValue(DocBiasNegative)}
              => (/\ FailedWithAIServiceError
                  /\ Contains(RaisedMessage, "Bias score out of range")
                  /\ ~Contains(RaisedMessage, "Invalid bias judge response format"))
        /\ data \in {JsonValue(DocBiasNoScore), JsonValue(DocBiasNoExplanation)}
              => (/\ FailedWithAIServiceError
                  /\ Contains(RaisedMessage, "Invalid bias judge response format")
                  /\ ~Contains(RaisedMessage, "Bias score out of range"))
        /\ Contains(RaisedMessage, "Bias score out of range")
              => (/\ HasBothBiasFields(data)
                  /\ HasNumericScore(data)
                  /\ ~ScoreInRange(data.fields.bias_score.tenths))
        /\ Contains(RaisedMessage, "Invalid bias judge response format")
              => ~(/\ HasBothBiasFields(data)
                   /\ HasNumericScore(data)
                   /\ ~ScoreInRange(data.fields.bias_score.tenths))
        /\ ~HasBothBiasFields(data)
              => Contains(RaisedMessage, "Invalid bias judge response format"))

\* C20 witness: the decoded response had the score -10.0 and an explanation,
\* and judge_bias failed naming the range
C20_Witness ==
    /\ op.name = "judge_bias"
    /\ data = JsonValue(DocBiasNegative)
    /\ pc = "Failed"
    /\ Contains(RaisedMessage, "Bias score out of range")

-----------------------------------------------------------------------------
(* Properties of the prompts *)

\* C21: the prompt of generate_card holds the "ADDITIONAL CONTEXT" marker
\* exactly when the context text supplied is non-empty: with None or the
\* empty string the marker is absent, with a context X the marker is there
\* and X follows it verbatim; the title section is there in both cases.
C21_ContextSectionIffContext ==
    (op.name = "generate_card" /\ Count(trace, "build") = 1)
    => (/\ Contains(prompt, "ADDITIONAL CONTEXT") <=> Truthy(op.args[4])
        /\ EmptyOrAbsent(op.args[4]) => ~Contains(prompt, "ADDITIONAL CONTEXT")
        /\ Truthy(op.args[4])
              => IsSuffix(<<"ADDITIONAL CONTEXT", op.args[4].s>>, prompt)
        /\ IsPrefix(<<"TITLE: ", op.args[1].s>>, prompt))

\* C21 witness: generate_card was called with no context (None) and its
\* prompt was built and sent
C21_Witness ==
    /\ op.name = "generate_card"
    /\ op.args[4] = PyNone
    /\ Count(trace, "build") = 1
    /\ Len(upstream) >= 1
    /\ ~Contains(prompt, "ADDITIONAL CONTEXT")

-----------------------------------------------------------------------------
(* Properties of the error translation *)

\* the prefix the operation puts before the cause of a failure at the
\* stage the trace shows
TranslationPrefix ==
    IF op.name = "copilot_answer" THEN "Failed to generate answer: "
    ELSE IF Count(trace, "parse") = 0 THEN "Unexpected error: "
    ELSE IF op.name = "generate_card" THEN "Card generation failed: "
    ELSE "Bias judgment failed: "

\* C22: a failed operation raises AIServiceError whose message is the
\* prefix of the operation and of the class of the failed stage followed by
\* the whole text of the underlying error: "Card generation failed: " and
\* "Bias judgment failed: " for a parse or validation failure, "Unexpected
\* error: " for any other failure of generate_card and judge_bias (gateway
\* exhaustion included), "Failed to generate answer: " in copilot_answer.
C22_TranslationKeepsCause ==
    (pc = "Failed" /\ op.name \in {"generate_card", "copilot_answer", "judge_bias"})
    => (/\ result.status = "raised"
        /\ result.error.kind = "AIServiceError"
        /\ result.error.msg = <<TranslationPrefix>> \o StageCause.msg
        /\ StageCause.msg # <<>>
        /\ Count(trace, "gateway_raise") = 1
              => (/\ StageCause = gateway.error
                  /\ StageCause.kind = "GeminiClientError"
                  /\ TranslationPrefix \in {"Unexpected error: ", "Failed to generate answer: "})
        /\ Count(trace, "parse") = 1
              => StageCause.kind \in {"ResponseParseError", "CardValidationError",
                                      "BiasValidationError"})

\* C22 witness: copilot_answer failed at the gateway after 3 attempts and
\* the caller's message is the prefix and the gateway's whole message
C22_Witness ==
    /\ op.name = "copilot_answer"
    /\ pc = "Failed"
    /\ gateway.status = "raised"
    /\ result.error.msg = <<"Failed to generate answer: ">> \o gateway.error.msg
    /\ Len(gateway.error.msg) >= 4

-----------------------------------------------------------------------------
(* Properties of the copilot answer *)

\* C23: a copilot_answer that returns gives the text the gateway returned
\* (the text of the last upstream call) without its leading and trailing
\* white space and otherwise as it is: the parser and the validators do not
\* run and no fence is removed.
C23_CopilotReturnsTrimmedText ==
    (op.name = "copilot_answer" /\ pc = "Done")
    => (/\ result.status = "returned"
        /\ gateway = Returned(upstream[Len(upstream)].text)
        /\ result.value = PyText(Strip(gateway.value.chars))
        /\ Count(trace, "parse") = 0
        /\ Count(trace, "validate") = 0
        /\ data = PyNone)

\* C23 witness: the response was a fenced block with white space around it;
\* the answer is the block with its fences, without the white space
C23_Witness ==
    /\ op.name = "copilot_answer"
    /\ pc = "Done"
    /\ gateway.value.chars = FencedJsonPadded(DocCardOk)
    /\ result.value.chars = Fenced(<<"j", "s", "o", "n">>, DocCardOk)

-----------------------------------------------------------------------------
(* The callers of the service: PDF extraction and the card-creation        *)
(* workflow (app/utils/pdf_parser.py; CardService.create_card_from_ai is   *)
(* modelled from the specification and its tests).                         *)

\* the characters of a text put together as one Python str
RECURSIVE Join(_)
Join(t) == IF t = <<>> THEN "" ELSE Head(t) \o Join(Tail(t))

\* a page of a PDF: load_page/get_text gives its text, or raises
PageOf(chars) == [reads |-> TRUE, text |-> chars]

\* the uploaded files: one fitz.open raises on, one with no page, one whose
\* only text is white space, one of two pages with text, one whose second
\* page cannot be read, one whose text has white space around it
PdfFiles ==
    { [opens |-> FALSE, pages |-> <<>>],
      [opens |-> TRUE, pages |-> <<>>],
      [opens |-> TRUE, pages |-> <<PageOf(<<" ", "\n">>), PageOf(<<"\f">>)>>],
      [opens |-> TRUE, pages |-> <<PageOf(<<"Some pdf context">>), PageOf(<<"\n", "More context">>)>>],
      [opens |-> TRUE, pages |-> <<PageOf(<<"Some pdf context">>), [reads |-> FALSE, text |-> <<>>]>>],
      [opens |-> TRUE, pages |-> <<PageOf(<<" ", "Some pdf context", "\n">>)>>] }

\* `text += page.get_text()` over the pages, in order
RECURSIVE PagesText(_)
PagesText(pages) ==
    IF pages = <<>> THEN <<>> ELSE Head(pages).text \o PagesText(Tail(pages))

\* the try block of extract_text_from_pdf: fitz.open and every page's
\* get_text may raise; the text is returned whole when it has something
\* else than white space, else None
ExtractBody(pdf_bytes) ==
    IF ~pdf_bytes.opens \/ \E i \in 1..Len(pdf_bytes.pages) : ~pdf_bytes.pages[i].reads
    THEN [raised |-> TRUE, value |-> PyNone]
    ELSE [raised |-> FALSE,
          value |-> IF Strip(PagesText(pdf_bytes.pages)) # <<>>
                    THEN PyStr(Join(PagesText(pdf_bytes.pages))) ELSE PyNone]

\* variant: no `except Exception` around the body - what fitz raises leaves
\* the function
extract_text_from_pdf_uncaught(pdf_bytes) ==
    [raised |-> ExtractBody(pdf_bytes).raised,
     value |-> ExtractBody(pdf_bytes).value,
     logged |-> FALSE]

\* extract_text_from_pdf: any exception of the body is caught, logged and
\* turned into None
extract_text_from_pdf(pdf_bytes) ==
    IF ExtractBody(pdf_bytes).raised
    THEN [raised |-> FALSE, value |-> PyNone, logged |-> TRUE]
    ELSE [raised |-> FALSE, value |-> ExtractBody(pdf_bytes).value, logged |-> FALSE]

\* what create_card_from_ai calls to read the file: the function of
\* pdf_parser.py, or a replacement of it that raises
PdfParsers == {"extract_text_from_pdf", "raising"}

\* what an upstream call does while a caller's operation runs
CallerOutcomes ==
    { [kind |-> "raise", error |-> Exc("ConnectionError", <<"connection reset">>)],
      [kind |-> "response", text |-> PyText(<<>>)],
      [kind |-> "response", text |-> PyText(<<DocCardOk>>)],
      [kind |-> "response", text |-> PyText(<<DocBiasOk>>)],
      [kind |-> "response", text |-> PyText(<<DocNotJson>>)],
      [kind |-> "response", text |-> PyText(<<" ", "\n">>)] }

\* create_card_from_ai, up to the gateway call of generate_card: with a
\* file the parser is called, and what it raises becomes PDFParsingError;
\* the context handed to generate_card is the text extracted, or the empty
\* string
StartCreateCard(title, system_prompt, topcis_to_cover, pdf_bytes, parser) ==
    /\ pc = "Idle"
    /\ workflow = NoWorkflow
    /\ LET parsed == IF pdf_bytes = PyNone
                     THEN [raised |-> FALSE, value |-> PyNone, logged |-> FALSE]
                     ELSE IF parser = "raising"
                     THEN [raised |-> TRUE, value |-> PyNone, logged |-> FALSE]
                     ELSE extract_text_from_pdf(pdf_bytes)
           context_text == IF Truthy(parsed.value) THEN parsed.value ELSE PyStr("")
       IN  IF parsed.raised
           THEN /\ workflow' = [status |-> "PDFParsingError", pdf |-> pdf_bytes,
                                parser |-> parser, extracted |-> PyNone,
                                error |-> <<"Failed to parse PDF context">>]
                /\ UNCHANGED <<op, pc, prompt, attempt, last_error, upstream, gateway,
                               data, result, trace, log>>
           ELSE /\ workflow' = [status |-> "running", pdf |-> pdf_bytes,
                                parser |-> parser, extracted |-> parsed.value,
                                error |-> <<>>]
                /\ op' = [name |-> "generate_card",
                          args |-> <<title, system_prompt, topcis_to_cover, context_text>>]
                /\ EntersGateway(build_card_generation_prompt(
                       title, system_prompt, topcis_to_cover,
                       ContextOrEmpty(context_text)))
    /\ UNCHANGED <<opsDone, client, lastOp, calls, frames, http>>

\* create_card_from_ai, after generate_card: AIServiceError becomes
\* AIGenerationError; a card without the three fields the stored card is
\* built from, and a failure of the
\* store (CardCRUD.create raises) become CardServiceError; else the card is
\* stored and returned
WorkflowOutcome(res, saved) ==
    IF res.status = "raised"
    THEN [status |-> "AIGenerationError", error |-> <<"Failed to generate card">>]
    ELSE IF ~(/\ res.value.type = "dict"
              /\ {"title", "description", "keywords"} \subseteq DOMAIN res.value.fields)
    THEN [status |-> "CardServiceError", error |-> <<"Invalid AI response structure">>]
    ELSE IF ~saved
    THEN [status |-> "CardServiceError", error |-> <<"Failed to save card">>]
    ELSE [status |-> "created", error |-> <<>>]

WorkflowEnd(saved) ==
    /\ pc \in {"Done", "Failed"}
    /\ workflow.status = "running"
    /\ workflow' = [workflow EXCEPT !.status = WorkflowOutcome(result, saved).status,
                                    !.error = WorkflowOutcome(result, saved).error]
    /\ UNCHANGED <<op, pc, prompt, attempt, last_error, upstream, gateway, data, result,
                   trace, log, opsDone, client, lastOp, calls, frames, http>>

WorkflowNext ==
    \/ \E t \in Titles, s \in SystemPrompts, k \in TopicsToCover,
          f \in PdfFiles \cup {PyNone}, x \in PdfParsers :
           StartCreateCard(t, s, k, f, x)
    \/ \E o \in CallerOutcomes : Attempt(o)
    \/ Sleep
    \/ Parse
    \/ ValidateCard
    \/ \E saved \in BOOLEAN : WorkflowEnd(saved)

WorkflowSpec == Init /\ [][WorkflowNext]_vars

\* a file whose extraction finds nothing: it does not open, a page cannot
\* be read, or its text is empty or only white space
NothingToExtract(f) ==
    \/ ~f.opens
    \/ \E i \in 1..Len(f.pages) : ~f.pages[i].reads
    \/ Strip(PagesText(f.pages)) = <<>>

\* C24: extract_text_from_pdf raises nothing, so the workflow that calls it
\* never ends with PDFParsingError (only a replaced parser that raises gives
\* that); it gives None when the file cannot be opened or read and when its
\* text is empty or white space only, else the text; when it gives None the
\* workflow calls generate_card with the empty string as context, the
\* prompt has no context section, and the workflow ends as generate_card
\* ends: a card when it returns one and the store saves it; the only other
\* failure is that of the store.
C24_PdfExtractionNeverCrashes ==
    workflow.status # "none"
    => (/\ workflow.status \in {"running", "created", "AIGenerationError",
                               "CardServiceError", "PDFParsingError"}
        /\ workflow.status = "PDFParsingError"
              => (/\ workflow.parser = "raising"
                  /\ workflow.pdf # PyNone
                  /\ op.name = "none"
                  /\ upstream = <<>>)
        /\ (workflow.pdf # PyNone /\ workflow.parser = "extract_text_from_pdf")
              => (/\ NothingToExtract(workflow.pdf) <=> workflow.extracted = PyNone
                  /\ ~NothingToExtract(workflow.pdf)
                        => workflow.extracted = PyStr(Join(PagesText(workflow.pdf.pages))))
        /\ (workflow.status # "PDFParsingError" /\ workflow.extracted = PyNone)
              => (/\ op.name = "generate_card"
                  /\ op.args[4] = PyStr("")
                  /\ ~Contains(prompt, "ADDITIONAL CONTEXT")
                  /\ pc \in {"Done", "Failed"}
                        => (/\ result = OutcomeAlone("generate_card", op.args, upstream)
                            /\ gateway = Returned(PyText(<<DocCardOk>>))
                                  => result = Returned(JsonValue(DocCardOk))))
        /\ workflow.status = "created" => (pc = "Done" /\ result.status = "returned")
        /\ workflow.status = "AIGenerationError" => (pc = "Failed" /\ result.status = "raised")
        /\ workflow.status = "CardServiceError"
              => (/\ pc = "Done"
                  /\ result.status = "returned"
                  /\ Contains(workflow.error, "Failed to save card")))

\* C24 witness: the second page of the file could not be read, the
\* extraction gave None, and the card was created
C24_Witness ==
    /\ workflow.status = "created"
    /\ workflow.parser = "extract_text_from_pdf"
    /\ workflow.pdf # PyNone
    /\ workflow.pdf.opens
    /\ \E i \in 1..Len(workflow.pdf.pages) : ~workflow.pdf.pages[i].reads
    /\ workflow.extracted = PyNone
    /\ op.args[4] = PyStr("")
    /\ result.status = "returned"

-----------------------------------------------------------------------------
(* The HTTP layer of the AI operations (app/api/v1/endpoints/ai.py with    *)
(* the request and response models of app/schemas/ai.py).                  *)

QuestionMinLength == 1
QuestionMaxLength == 500
ContextMinLength == 10
BlogContentMinLength == 50

\* a string of n copies of c
RECURSIVE Repeat(_, _)
Repeat(c, n) ==
    IF n = 0 THEN ""
    ELSE IF n % 2 = 0 THEN LET half == Repeat(c, n \div 2) IN half \o half
    ELSE c \o Repeat(c, n - 1)

\* the fields of the request bodies: missing (null), too short, at the
\* limits, too long, white space
RequestQuestions ==
    { PyNone, PyStr(""), PyStr(" "), PyStr("What happened?"),
      PyStr(Repeat("q", QuestionMaxLength)), PyStr(Repeat("q", QuestionMaxLength + 1)) }
RequestContexts ==
    { PyNone, PyStr(""), PyStr("Too short"), PyStr("Ten chars."), PyStr("          ") }

\* CopilotRequest: question: str of 1 to 500 characters, context: str of
\* at least 10
CopilotRequestValid(question, context) ==
    /\ question.type = "str"
    /\ QuestionMinLength <= Len(question.s)
    /\ Len(question.s) <= QuestionMaxLength
    /\ context.type = "str"
    /\ ContextMinLength <= Len(context.s)

\* BiasJudgeRequest: blog_content: str of at least 50 characters
BiasJudgeRequestValid(blog_content) ==
    /\ blog_content.type = "str"
    /\ BlogContentMinLength <= Len(blog_content.s)

\* the request body did not pass its model: the handler is not called
Unprocessable == [status |-> 422, detail |-> <<"validation error">>, body |-> PyNone]

\* CopilotResponse(answer=...) / BiasJudgeResponse(bias_score=...,
\* explanation=...) accept the value the operation returned
ResponseModelValid(name, value) ==
    IF name = "copilot_answer" THEN value.type = "text"
    ELSE /\ value.type = "tuple"
         /\ value.items[1].type \in {"num", "int"}
         /\ 0 <= Tenths(value.items[1])
         /\ Tenths(value.items[1]) <= 1000
         /\ value.items[2].type = "str"

\* the detail prefix of each handler's HTTPException
EndpointPrefix(name) ==
    IF name = "copilot_answer" THEN "Failed to generate copilot answer: "
    ELSE "Failed to analyze for bias: "

\* variant: a failure of the upstream service is answered like the generic
\* `except Exception` of the cards endpoint, with status 500
EndpointResponseUpstream500(name, res) ==
    IF res.status = "raised"
    THEN IF res.error.kind = "AIServiceError" /\ res.error.msg[1] # "Unexpected error: "
         THEN [status |-> 400, detail |-> <<EndpointPrefix(name)>> \o res.error.msg,
               body |-> PyNone]
         ELSE [status |-> 500, detail |-> <<"Internal Server Error">>, body |-> PyNone]
    ELSE IF ResponseModelValid(name, res.value)
         THEN [status |-> 200, detail |-> <<>>, body |-> res.value]
         ELSE [status |-> 500, detail |-> <<"Internal Server Error">>, body |-> PyNone]

\* get_copilot_response / analyze_bias: the try block around the operation;
\* `except AIServiceError` raises HTTPException(400); anything else is not
\* caught and is answered with status 500
EndpointResponse(name, res) ==
    IF res.status = "raised"
    THEN IF res.error.kind = "AIServiceError"
         THEN [status |-> 400, detail |-> <<EndpointPrefix(name)>> \o res.error.msg,
               body |-> PyNone]
         ELSE [status |-> 500, detail |-> <<"Internal Server Error">>, body |-> PyNone]
    ELSE IF ResponseModelValid(name, res.value)
         THEN [status |-> 200, detail |-> <<>>, body |-> res.value]
         ELSE [status |-> 500, detail |-> <<"Internal Server Error">>, body |-> PyNone]

\* get_copilot_response: the handler calls copilot_answer with the fields
\* of its request.  As a function it takes any request object: the fields
\* are checked where the route builds the request, not here.
get_copilot_response(question, context) ==
    /\ http = NoResponse
    /\ StartCopilotAnswer(question, context)

\* analyze_bias: the handler calls judge_bias with the field of its request
analyze_bias(blog_content) ==
    /\ http = NoResponse
    /\ StartJudgeBias(blog_content)

\* POST /copilot: the body is validated, then the handler is called
PostCopilot(question, context) ==
    IF CopilotRequestValid(question, context)
    THEN get_copilot_response(question, context)
    ELSE /\ pc = "Idle"
         /\ http = NoResponse
         /\ http' = Unprocessable
         /\ UNCHANGED <<op, pc, prompt, attempt, last_error, upstream, gateway, data,
                        result, trace, log, opsDone, client, lastOp, calls, frames,
                        workflow>>

\* POST /bias-judge: the body is validated, then the handler is called
PostBiasJudge(blog_content) ==
    IF BiasJudgeRequestValid(blog_content)
    THEN analyze_bias(blog_content)
    ELSE /\ pc = "Idle"
         /\ http = NoResponse
         /\ http' = Unprocessable
         /\ UNCHANGED <<op, pc, prompt, attempt, last_error, upstream, gateway, data,
                        result, trace, log, opsDone, client, lastOp, calls, frames,
                        workflow>>

\* the handler returns the response model or raises HTTPException
Respond ==
    /\ pc \in {"Done", "Failed"}
    /\ http = NoResponse
    /\ http' = EndpointResponse(op.name, result)
    /\ UNCHANGED <<op, pc, prompt, attempt, last_error, upstream, gateway, data, result,
                   trace, log, opsDone, client, lastOp, calls, frames, workflow>>

\* the request is over and the next one may come: the endpoints are
\* stateless, only the observer remembers what was answered
NextRequest ==
    /\ http # NoResponse
    /\ opsDone + 1 < MaxOps
    /\ opsDone' = opsDone + 1
    /\ lastOp' = [name |-> op.name, args |-> op.args, status |-> result.status,
                   attempts |-> Len(upstream), http |-> http]
    /\ op' = [name |-> "none", args |-> <<>>]
    /\ pc' = "Idle"
    /\ prompt' = <<>>
    /\ attempt' = 0
    /\ last_error' = PyNone
    /\ upstream' = <<>>
    /\ gateway' = NoOutcome
    /\ data' = PyNone
    /\ result' = NoOutcome
    /\ trace' = <<>>
    /\ log' = <<>>
    /\ http' = NoResponse
    /\ UNCHANGED <<client, calls, frames, workflow>>

EndpointNext ==
    \/ \E q \in RequestQuestions, c \in RequestContexts : PostCopilot(q, c)
    \/ \E b \in Contents : PostBiasJudge(b)
    \/ \E q \in RequestQuestions, c \in RequestContexts : get_copilot_response(q, c)
    \/ \E b \in Contents : analyze_bias(b)
    \/ \E o \in CallerOutcomes : Attempt(o)
    \/ Sleep
    \/ Parse
    \/ ValidateBias
    \/ CopilotReturn
    \/ Respond
    \/ NextRequest

EndpointSpec == Init /\ [][EndpointNext]_vars

\* C25: whatever made copilot_answer or judge_bias raise AIServiceError - the
\* guard on the caller's input, the upstream calls, the parser or the
\* validator - the handler answers with status 400 and the operation's
\* message after its prefix; an operation that returned is answered with
\* status 200 and the value returned; a body refused by the request model
\* (422) never reached the operation.
C25_EveryServiceErrorIsA400 ==
    /\ http.status \in {0, 200, 400, 422}
    /\ http.status = 422 => (op.name = "none" /\ result = NoOutcome /\ upstream = <<>>)
    /\ http.status \in {200, 400}
          => (op.name \in {"copilot_answer", "judge_bias"} /\ pc \in {"Done", "Failed"})
    /\ (http # NoResponse /\ result.status = "raised")
          => (/\ pc = "Failed"
              /\ result.error.kind = "AIServiceError"
              /\ http.status = 400
              /\ http.detail = <<EndpointPrefix(op.name)>> \o result.error.msg)
    /\ (http # NoResponse /\ result.status = "returned")
          => (/\ pc = "Done"
              /\ http.status = 200
              /\ http.body = result.value)

\* C25 witness: two requests were answered with status 400: the first
\* failed at the guard of copilot_answer (an empty question), without any
\* upstream call, the second after three failed upstream calls of judge_bias
C25_Witness ==
    /\ lastOp.name = "copilot_answer"
    /\ lastOp.status = "raised"
    /\ lastOp.http.status = 400
    /\ Contains(lastOp.http.detail, "Question and context are required")
    /\ http.status = 400
    /\ op.name = "judge_bias"
    /\ Count(trace, "parse") = 0
    /\ Len(upstream) = 3
    /\ result.status = "raised"

-----------------------------------------------------------------------------
(* Termination: one operation, whose upstream calls and sleeps return.     *)

\* the steps of an operation once it has started
OperationStep ==
    \/ \E o \in CallerOutcomes : Attempt(o)
    \/ Sleep
    \/ Parse
    \/ ValidateCard
    \/ ValidateBias
    \/ CopilotReturn

TerminationNext ==
    \/ \E t \in Titles, s \in SystemPrompts, k \in TopicsToCover, c \in ContextTexts :
           StartGenerateCard(t, s, k, c)
    \/ \E q \in Questions, c \in Contexts : StartCopilotAnswer(q, c)
    \/ \E c \in Contents : StartJudgeBias(c)
    \/ OperationStep

\* every call made by the operation returns or raises: generate_content,
\* time.sleep, the parser, the validators
TerminationSpec == Init /\ [][TerminationNext]_vars /\ WF_vars(OperationStep)

\* C26: a started operation makes at most 3 upstream attempts and at most
\* 2 sleeps, and always reaches Done (a value returned) or Failed
\* (AIServiceError raised), whatever the inputs and the upstream outcomes.
C26_EveryOperationTerminates ==
    (op.name # "none")
    ~> (/\ pc \in {"Done", "Failed"}
        /\ Len(upstream) <= 3
        /\ Count(trace, "sleep") <= 2
        /\ pc = "Done" => result.status = "returned"
        /\ pc = "Failed" => (result.status = "raised" /\ result.error.kind = "AIServiceError"))

\* C26 witness: an operation failed after 3 attempts and 2 sleeps
C26_Witness ==
    /\ pc = "Failed"
    /\ Len(upstream) = 3
    /\ Count(trace, "sleep") = 2
    /\ \A i \in 1..3 : ~AttemptSucceeds(upstream[i])

-----------------------------------------------------------------------------
(* The retry strategy written in the docstring of call_with_retry.         *)

\* the waits of the sleeps made so far, in order
SleepWaits ==
    [k \in 1..Count(trace, "sleep") |-> SelectSeq(trace, LAMBDA e : e.ev = "sleep")[k].n]

\* C27: the documented strategy: the k-th failed attempt is followed by a
\* wait of 1, 2, then 4 seconds and a retry, and the gateway raises its
\* error only after the attempt that follows the wait of 4 seconds has
\* failed too (4 attempts, waits 1, 2, 4).
C27_DocumentedRetryStrategy ==
    /\ \A k \in 1..Len(SleepWaits) : SleepWaits[k] = 2 ^ (k - 1)
    /\ gateway.status = "raised"
          => (/\ SleepWaits = <<1, 2, 4>>
              /\ Len(upstream) = 4
              /\ \A i \in 1..Len(upstream) : ~AttemptSucceeds(upstream[i]))

-----------------------------------------------------------------------------
(* The fence rules of the specification, stated for parse_json_response.   *)

\* C28: a closing fence marker is removed only from a fenced block: when
\* the trimmed text does not start with a fence marker it is decoded as it
\* is, so a text with no opening fence that ends with one fails with
\* ResponseParseError.
C28_ClosingFenceOnlyAfterOpeningFence ==
    (/\ op.name = "parse_json_response"
     /\ pc \in {"Done", "Failed"}
     /\ op.args[1].type = "text"
     /\ ~StartsWith(Strip(op.args[1].chars), Fence))
    => (/\ JsonLoads(Strip(op.args[1].chars)).ok
              => result = Returned(JsonLoads(Strip(op.args[1].chars)).value)
        /\ ~JsonLoads(Strip(op.args[1].chars)).ok
              => (pc = "Failed" /\ result.error.kind = "ResponseParseError")
        /\ EndsWith(Strip(op.args[1].chars), Fence)
              => (pc = "Failed" /\ result.error.kind = "ResponseParseError"))

\* the language hints of an opening fence: none, json, another language
FenceTags == { <<>>, <<"j", "s", "o", "n">>, TagPython }

\* C29: the opening fence is stripped with its language hint, whatever the
\* hint: a JSON text inside a fence opened with no tag, with json or with
\* another tag decodes to what the text alone decodes to.
C29_AnyFenceTagIsStripped ==
    \A d \in JsonDocuments, tag \in FenceTags :
       (/\ op.name = "parse_json_response"
        /\ pc \in {"Done", "Failed"}
        /\ op.args[1] = PyText(Fenced(tag, d)))
       => (/\ pc = "Done"
           /\ result = Returned(JsonValue(d))
           /\ result = Returned(parse_json_response(<<d>>).value))

-----------------------------------------------------------------------------
(* Blank arguments and the fail-fast guards. *)

\* C30: the guards test emptiness, not blankness: copilot_answer with a
\* question or a context of white space only (and neither empty), and
\* judge_bias with 50 or more characters of white space, are not rejected:
\* the prompt is built, the gateway is entered and the operation ends only
\* after at least one upstream attempt, never with the guard's message.
C30_BlankArgumentsPassTheGuards ==
    ((\/ /\ op.name = "copilot_answer"
         /\ Truthy(op.args[1])
         /\ Truthy(op.args[2])
         /\ WhitespaceOnly(op.args[1]) \/ WhitespaceOnly(op.args[2])
      \/ /\ op.name = "judge_bias"
         /\ WhitespaceOnly(op.args[1])
         /\ Len(op.args[1].s) >= MinContentLength)
     /\ pc # "Idle")
    => (/\ Count(trace, "build") = 1
        /\ (pc = "Attempting" /\ attempt = 0) \/ Len(upstream) >= 1
        /\ pc \in {"Done", "Failed"} => Count(trace, "attempt") >= 1
        /\ pc = "Failed"
              => (/\ ~Contains(result.error.msg, "Question and context are required")
                  /\ ~Contains(result.error.msg, "Content must be ")))

\* C30 witness: two requests in a row reached the gateway with blank
\* arguments: copilot_answer with a question of one blank returned an
\* answer after an upstream call, then judge_bias with 50 blanks made its
\* upstream call
C30_Witness ==
    /\ lastOp.name = "copilot_answer"
    /\ lastOp.args[1] = PyStr(" ")
    /\ lastOp.attempts >= 1
    /\ lastOp.status = "returned"
    /\ op.name = "judge_bias"
    /\ op.args[1] = PyStr(Repeat(" ", MinContentLength))
    /\ pc = "Done"
    /\ Len(upstream) >= 1
    /\ result.status = "returned"

=============================================================================
